---- MODULE Spec2Model ----
(***************************************************************************)
(* persipubsub: a persistent multi-publisher / multi-subscriber queue on   *)
(* LMDB.  The store is one LMDB environment; every `with env.begin(...)`   *)
(* block of the Python source is one transaction.  LMDB serialises write   *)
(* transactions and gives every read transaction a snapshot, so one        *)
(* transaction is one atomic step of the model, and a Python exception     *)
(* inside the block aborts the transaction (no variable of the store       *)
(* changes).  Operations that span several transactions (cleanup, put,     *)
(* receive) are several steps, with the thread's position in pc.           *)
(***************************************************************************)
EXTENDS Integers, FiniteSets, Sequences, TLC

\* ------------------------------------------------------------------ bounds

\* Message ids are 1..MaxId; an id stands for the string
\* str(utcnow().timestamp()) + str(uuid4()) and the order of the integers for
\* the lexicographic order of these strings.
MaxId == 2
\* The clock (whole seconds) runs from 0 to MaxTime.
MaxTime == 1
\* Longest list handed to put_many_flush_once.
MaxBatch == 2
\* Administrative (Control) calls and re-opens in one run.
MaxCtl == 2
\* Most messages in the store when a run of SpecHalf starts.
MaxStored == 4

Ids == 1..MaxId
Subs == {"a", "b"}
Pubs == {"p1", "p2"}
Ctl == "ctl"
Handles == Pubs \cup {Ctl}
Cons == {"c1", "c2", "c3"}
Payloads == {"x", "y"}
\* msg = None and msg_id = None of Subscriber.receive.
None == "None"
NoId == 0

\* The subscriber id a Subscriber handle was initialised with.
Identifier(c) == IF c = "c3" THEN "b" ELSE "a"

PRUNE_FIRST == "PRUNE_FIRST"
PRUNE_LAST == "PRUNE_LAST"

\* HighWaterMark values a queue is initialised with.  Sizes are counted in
\* pages of data_db, one page per stored message.
\* Roomy: no limit is within reach of MaxId messages and MaxTime seconds.
Roomy == [message_timeout |-> MaxTime, max_messages |-> MaxId + 1, hwm_lmdb_size |-> MaxId + 1]
ShortLived == [message_timeout |-> 0, max_messages |-> MaxId + 1, hwm_lmdb_size |-> MaxId + 1]
FewMessages == [message_timeout |-> MaxTime, max_messages |-> 1, hwm_lmdb_size |-> MaxId + 1]
FewPages == [message_timeout |-> MaxTime, max_messages |-> MaxId + 1, hwm_lmdb_size |-> 1]
HwmChoices == {Roomy, ShortLived, FewMessages, FewPages}

VARIABLES
    \* the LMDB environment
    dbs,            \* the reserved sub-DBs that exist
    data_db,        \* msg_id -> payload
    meta_db,        \* msg_id -> timestamp (secs)
    pending_db,     \* msg_id -> number of subscribers still to read it
    queue_db,       \* reserved key -> value, as bytes
    subscriber_db,  \* set of subscriber ids
    sub_dbs,        \* per existing subscriber sub-DB: its set of msg_ids
    \* the clock and the message ids handed out so far
    now, used,
    \* _Queue objects of the publishers and of the Control: what init cached
    queue,
    \* publisher threads
    ppc, msgs, msgs_to_delete, msgs_to_delete_timeout, messages_to_delete,
    \* subscriber threads
    cpc, msg_id, msg, msg_to_pop_num,
    \* Control: its subscriber_ids, the calls made, and the arguments of the
    \* first-time initialisation under way
    ctl_subscriber_ids, ctl_calls, ctl_args,
    \* history: for the subscribers of watched the ids yielded in a block that
    \* was left and the ids acknowledged by the pop of receive; the messages
    \* committed by put / put_many_flush_once, in the order of the commits;
    \* whether a retention limit was reached
    watched, left, acked, sent, limit_reached

store == <<dbs, data_db, meta_db, pending_db, queue_db, subscriber_db, sub_dbs>>
pubvars == <<ppc, msgs, msgs_to_delete, msgs_to_delete_timeout, messages_to_delete>>
convars == <<cpc, msg_id, msg, msg_to_pop_num>>
ctlvars == <<ctl_subscriber_ids, ctl_calls, ctl_args>>
history == <<watched, left, acked, sent, limit_reached>>
vars == <<store, now, used, queue, pubvars, convars, ctlvars, history>>

\* ------------------------------------------------------------- database.py

\* The names of the reserved sub-DBs and the reserved keys of queue_db.
DATA_DB == "data_db"
PENDING_DB == "pending_db"
META_DB == "meta_db"
QUEUE_DB == "queue_db"
SUBSCRIBER_DB == "subscriber_db"
Reserved == {DATA_DB, PENDING_DB, META_DB, QUEUE_DB, SUBSCRIBER_DB}

HWM_DB_SIZE_KEY == "hwm_db_size"
MAX_MESSAGES_KEY == "max_messages"
MESSAGE_TIMEOUT_KEY == "message_timeout"
STRATEGY_KEY == "strategy"

BYTES_LENGTH == 8

\* int_to_bytes: value.to_bytes(length=8, byteorder='big'), for the values
\* 0 <= value < 2^31 of the model (to_bytes raises OverflowError outside
\* 0 .. 2^64 - 1).  A byte string is the sequence of its bytes.
RECURSIVE ToBytes(_, _)
ToBytes(value, length) ==
    IF length = 0 THEN <<>>
    ELSE Append(ToBytes(value \div 256, length - 1), value % 256)

int_to_bytes(value) == ToBytes(value, BYTES_LENGTH)

\* bytes_to_int: int.from_bytes(bytes, byteorder='big').
RECURSIVE bytes_to_int(_)
bytes_to_int(array_of_bytes) ==
    IF array_of_bytes = <<>> THEN 0
    ELSE 256 * bytes_to_int(SubSeq(array_of_bytes, 1, Len(array_of_bytes) - 1))
            + array_of_bytes[Len(array_of_bytes)]

\* str_to_bytes / bytes_to_str: the UTF-8 bytes of a string, written as the
\* pair of the encoding and the string.
ENCODING == "utf-8"
str_to_bytes(string) == <<ENCODING, string>>
bytes_to_str(encoded_str) == encoded_str[2]

ValueError == "ValueError"

\* queue._parse_strategy; a Strategy member is written by its name.
_parse_strategy(identifier) ==
    IF identifier = PRUNE_FIRST THEN PRUNE_FIRST
    ELSE IF identifier = PRUNE_LAST THEN PRUNE_LAST
    ELSE ValueError

\* ------------------------------------------------------------ LMDB helpers

\* txn.delete(key, db) for every key of keys (a missing key is no error).
TxnDelete(db, keys) == [k \in (DOMAIN db) \ keys |-> db[k]]

\* cursor.first() / cursor.last() on a non-empty key set.
First(keys) == CHOOSE k \in keys : \A j \in keys : k <= j
Last(keys) == CHOOSE k \in keys : \A j \in keys : k >= j

\* The n smallest / largest keys (all of them when there are fewer).
RECURSIVE Smallest(_, _)
Smallest(keys, n) ==
    IF n <= 0 \/ keys = {} THEN {}
    ELSE {First(keys)} \cup Smallest(keys \ {First(keys)}, n - 1)

RECURSIVE Largest(_, _)
Largest(keys, n) ==
    IF n <= 0 \/ keys = {} THEN {}
    ELSE {Last(keys)} \cup Largest(keys \ {Last(keys)}, n - 1)

\* env.open_db(key=sub, create=False) succeeds for every sub of subs.
SubDbsExist(subs) == subs \subseteq DOMAIN sub_dbs

\* ------------------------------------------------------------- queue reads

\* retrieve_queue_data that reads max_messages and hwm_db_size from each
\* other's key.
retrieve_queue_data_swapped ==
    [hwm |-> [message_timeout |-> bytes_to_int(queue_db[MESSAGE_TIMEOUT_KEY]),
              max_messages |-> bytes_to_int(queue_db[HWM_DB_SIZE_KEY]),
              hwm_lmdb_size |-> bytes_to_int(queue_db[MAX_MESSAGES_KEY])],
     strategy |-> bytes_to_str(queue_db[STRATEGY_KEY]),
     subscriber_ids |-> subscriber_db]

\* database.retrieve_queue_data: the reserved keys and the subscriber ids,
\* read and decoded in one read transaction (when it does not raise, see
\* RetrieveRaises).
retrieve_queue_data ==
    [hwm |-> [message_timeout |-> bytes_to_int(queue_db[MESSAGE_TIMEOUT_KEY]),
              max_messages |-> bytes_to_int(queue_db[MAX_MESSAGES_KEY]),
              hwm_lmdb_size |-> bytes_to_int(queue_db[HWM_DB_SIZE_KEY])],
     strategy |-> bytes_to_str(queue_db[STRATEGY_KEY]),
     subscriber_ids |-> subscriber_db]

\* What _Queue.init caches of it: the HighWaterMark, the parsed Strategy and
\* the subscriber ids.
Cached ==
    [hwm |-> retrieve_queue_data.hwm,
     strategy |-> _parse_strategy(retrieve_queue_data.strategy),
     subscriber_ids |-> retrieve_queue_data.subscriber_ids]

count_msgs == Cardinality(DOMAIN meta_db)

check_current_lmdb_size == Cardinality(DOMAIN data_db)

\* _Queue.front: (msg_id, msg) of the first key of the subscriber's sub-DB.
FrontKey(sub) == IF sub_dbs[sub] = {} THEN NoId ELSE First(sub_dbs[sub])

\* FrontMsg reading a database that does not hold the key.
FrontMsgMissing(sub) == None

FrontMsg(sub) ==
    IF sub_dbs[sub] = {} THEN None
    ELSE IF First(sub_dbs[sub]) \in DOMAIN data_db THEN data_db[First(sub_dbs[sub])]
    ELSE None

\* ------------------------------------------------------------ publishers

\* The subscriber ids _prune_dangling_messages_for is called with: the
\* queue's cached set (Queue.prune_dangling_messages) or the Control's own
\* set (Control.prune_dangling_messages).
SubscriberIdsOf(p) == IF p = Ctl THEN ctl_subscriber_ids ELSE queue[p].subscriber_ids

\* Ids not yet handed out and not reserved by a put in progress.
IdsLeft ==
    MaxId - Cardinality(used)
          - Cardinality({<<q, i>> \in Pubs \X (1..MaxBatch) :
                            ppc[q] # "idle" /\ i <= Len(msgs[q])})

\* Queue.put / put_many_flush_once start with cleanup(), which starts with
\* prune_dangling_messages: the first read transaction collects the ids
\* whose pending count is 0.
PruneReadPending(p, ms) ==
    /\ ppc[p] = "idle"
    /\ Len(ms) <= IdsLeft
    /\ msgs' = [msgs EXCEPT ![p] = ms]
    /\ msgs_to_delete' = [msgs_to_delete EXCEPT ![p] =
           {k \in DOMAIN pending_db : pending_db[k] = 0}]
    /\ ppc' = [ppc EXCEPT ![p] = "prune_read_meta"]
    /\ UNCHANGED <<store, now, used, queue, msgs_to_delete_timeout,
                   messages_to_delete, convars, ctlvars, history>>

put(p) == p \in Pubs /\ \E m \in Payloads : PruneReadPending(p, <<m>>)

put_many_flush_once(p) ==
    p \in Pubs /\ \E n \in 0..MaxBatch : \E ms \in [1..n -> Payloads] : PruneReadPending(p, ms)

\* TimedOut with >= for >: a message is dropped when its age reaches the
\* timeout.
TimedOutAtLimit(timeout) == {k \in DOMAIN meta_db : now - meta_db[k] >= timeout}

\* Ids older than the handle's message_timeout.
TimedOut(timeout) == {k \in DOMAIN meta_db : now - meta_db[k] > timeout}

\* The second read transaction collects the ids that timed out.
PruneReadMeta(p) ==
    /\ ppc[p] = "prune_read_meta"
    /\ msgs_to_delete_timeout' = [msgs_to_delete_timeout EXCEPT ![p] =
           TimedOut(queue[p].hwm.message_timeout)]
    /\ limit_reached' =
           (limit_reached \/
            \E k \in TimedOut(queue[p].hwm.message_timeout) :
                k \in DOMAIN pending_db /\ pending_db[k] > 0)
    /\ ppc' = [ppc EXCEPT ![p] = "prune_write"]
    /\ UNCHANGED <<store, now, used, queue, msgs, msgs_to_delete,
                   messages_to_delete, convars, ctlvars, watched, left, acked, sent>>

\* PrunedDangling with the deletes left out.
PrunedDanglingKept(db, doomed) == db

\* The store after the write transaction of _prune_dangling_messages_for:
\* both sets leave pending_db, meta_db and data_db, the timed-out ids also
\* leave the sub-DB of every subscriber of subscriber_ids.
PrunedDangling(db, doomed) == TxnDelete(db, doomed)

\* PrunedInboxes with the deletes from the sub-DBs left out.
PrunedInboxesKept(subscriber_ids, doomed_timeout) == sub_dbs

PrunedInboxes(subscriber_ids, doomed_timeout) ==
    [s \in DOMAIN sub_dbs |->
        IF s \in subscriber_ids THEN sub_dbs[s] \ doomed_timeout ELSE sub_dbs[s]]

PruneWrite(p) ==
    /\ ppc[p] = "prune_write"
    /\ IF SubDbsExist(SubscriberIdsOf(p))
       THEN /\ pending_db' = PrunedDangling(pending_db,
                                 msgs_to_delete[p] \cup msgs_to_delete_timeout[p])
            /\ meta_db' = PrunedDangling(meta_db,
                                 msgs_to_delete[p] \cup msgs_to_delete_timeout[p])
            /\ data_db' = PrunedDangling(data_db,
                                 msgs_to_delete[p] \cup msgs_to_delete_timeout[p])
            /\ sub_dbs' = PrunedInboxes(SubscriberIdsOf(p),
                                        msgs_to_delete_timeout[p])
            /\ ppc' = [ppc EXCEPT ![p] = IF p = Ctl THEN "idle" ELSE "count_msgs"]
       ELSE \* lmdb.NotFoundError: the transaction aborts, put raises
            /\ UNCHANGED <<pending_db, meta_db, data_db, sub_dbs>>
            /\ ppc' = [ppc EXCEPT ![p] = "idle"]
    /\ msgs_to_delete' = [msgs_to_delete EXCEPT ![p] = {}]
    /\ msgs_to_delete_timeout' = [msgs_to_delete_timeout EXCEPT ![p] = {}]
    /\ UNCHANGED <<dbs, queue_db, subscriber_db, now, used, queue, msgs,
                   messages_to_delete, convars, ctlvars, history>>

\* CountMsgs with > for >=: one half is pruned when the limit is exceeded.
CountMsgsAbove(p) ==
    /\ ppc[p] = "count_msgs"
    /\ IF count_msgs > queue[p].hwm.max_messages
       THEN /\ ppc' = [ppc EXCEPT ![p] = "half_read_1"]
            /\ limit_reached' = TRUE
       ELSE /\ ppc' = [ppc EXCEPT ![p] = "check_size"]
            /\ UNCHANGED limit_reached
    /\ UNCHANGED <<store, now, used, queue, msgs, msgs_to_delete,
                   msgs_to_delete_timeout, messages_to_delete, convars,
                   ctlvars, watched, left, acked, sent>>

\* CountMsgs that compares with the max_messages stored in queue_db now.
CountMsgsStored(p) ==
    /\ ppc[p] = "count_msgs"
    /\ IF count_msgs >= retrieve_queue_data.hwm.max_messages
       THEN /\ ppc' = [ppc EXCEPT ![p] = "half_read_1"]
            /\ limit_reached' = TRUE
       ELSE /\ ppc' = [ppc EXCEPT ![p] = "check_size"]
            /\ UNCHANGED limit_reached
    /\ UNCHANGED <<store, now, used, queue, msgs, msgs_to_delete,
                   msgs_to_delete_timeout, messages_to_delete, convars,
                   ctlvars, watched, left, acked, sent>>

\* cleanup: msgs_num = count_msgs(); prune one half when the limit is reached.
CountMsgs(p) ==
    /\ ppc[p] = "count_msgs"
    /\ IF count_msgs >= queue[p].hwm.max_messages
       THEN /\ ppc' = [ppc EXCEPT ![p] = "half_read_1"]
            /\ limit_reached' = TRUE
       ELSE /\ ppc' = [ppc EXCEPT ![p] = "check_size"]
            /\ UNCHANGED limit_reached
    /\ UNCHANGED <<store, now, used, queue, msgs, msgs_to_delete,
                   msgs_to_delete_timeout, messages_to_delete, convars,
                   ctlvars, watched, left, acked, sent>>

\* cleanup: lmdb_size_bytes = check_current_lmdb_size(); prune one half when
\* the size limit is reached; then the cleanup is over and put goes on.
CheckSize(p) ==
    /\ ppc[p] = "check_size"
    /\ IF check_current_lmdb_size >= queue[p].hwm.hwm_lmdb_size
       THEN /\ ppc' = [ppc EXCEPT ![p] = "half_read_2"]
            /\ limit_reached' = TRUE
       ELSE /\ ppc' = [ppc EXCEPT ![p] = "put_write"]
            /\ UNCHANGED limit_reached
    /\ UNCHANGED <<store, now, used, queue, msgs, msgs_to_delete,
                   msgs_to_delete_timeout, messages_to_delete, convars,
                   ctlvars, watched, left, acked, sent>>

\* prune_half_of_messages, read transaction: entries = stat(meta_db), then
\* the cursor walks from the first (PRUNE_FIRST) or the last (PRUNE_LAST) key
\* and stops after the key with index int(entries / 2).
\* HalfToDelete that stops at the key with index int(entries / 2) - 1.
HalfToDeleteOneLess(strategy) ==
    IF strategy = PRUNE_FIRST
    THEN Smallest(DOMAIN meta_db, Cardinality(DOMAIN meta_db) \div 2)
    ELSE Largest(DOMAIN meta_db, Cardinality(DOMAIN meta_db) \div 2)

\* HalfToDelete that walks from the first key under either strategy.
HalfToDeleteFromFirst(strategy) ==
    Smallest(DOMAIN meta_db, (Cardinality(DOMAIN meta_db) \div 2) + 1)

HalfToDelete(strategy) ==
    IF strategy = PRUNE_FIRST
    THEN Smallest(DOMAIN meta_db, (Cardinality(DOMAIN meta_db) \div 2) + 1)
    ELSE Largest(DOMAIN meta_db, (Cardinality(DOMAIN meta_db) \div 2) + 1)

HalfRead(p) ==
    /\ ppc[p] \in {"half_read_1", "half_read_2"}
    /\ messages_to_delete' = [messages_to_delete EXCEPT ![p] =
           HalfToDelete(queue[p].strategy)]
    /\ ppc' = [ppc EXCEPT ![p] =
           IF ppc[p] = "half_read_1" THEN "half_write_1" ELSE "half_write_2"]
    /\ UNCHANGED <<store, now, used, queue, msgs, msgs_to_delete,
                   msgs_to_delete_timeout, convars, ctlvars, history>>

\* prune_half_of_messages, write transaction: every collected key leaves
\* pending_db, meta_db, data_db and the sub-DB of every cached subscriber.
HalfPruned(db, doomed) == TxnDelete(db, doomed)

\* HalfPrunedData with the delete from data_db left out.
HalfPrunedDataKept(doomed) == data_db

HalfPrunedData(doomed) == HalfPruned(data_db, doomed)

HalfWrite(p) ==
    /\ ppc[p] \in {"half_write_1", "half_write_2"}
    /\ IF SubDbsExist(queue[p].subscriber_ids)
       THEN /\ pending_db' = HalfPruned(pending_db, messages_to_delete[p])
            /\ meta_db' = HalfPruned(meta_db, messages_to_delete[p])
            /\ data_db' = HalfPrunedData(messages_to_delete[p])
            /\ sub_dbs' = PrunedInboxes(queue[p].subscriber_ids,
                                        messages_to_delete[p])
            /\ ppc' = [ppc EXCEPT ![p] =
                   IF ppc[p] = "half_write_1" THEN "check_size" ELSE "put_write"]
       ELSE \* lmdb.NotFoundError: the transaction aborts, put raises
            /\ UNCHANGED <<pending_db, meta_db, data_db, sub_dbs>>
            /\ ppc' = [ppc EXCEPT ![p] = "idle"]
    /\ messages_to_delete' = [messages_to_delete EXCEPT ![p] = {}]
    /\ UNCHANGED <<dbs, queue_db, subscriber_db, now, used, queue, msgs,
                   msgs_to_delete, msgs_to_delete_timeout, convars, ctlvars,
                   history>>

\* The write transaction of put (one message) and of put_many_flush_once
\* (all messages): per message a fresh id; pending_db gets the number of
\* cached subscribers, meta_db the time, data_db the payload, and the sub-DB
\* of every cached subscriber the id.  ids[i] is the id of the i-th message.
PutPendingOne(ids, n, subscriber_ids) ==
    [k \in (DOMAIN pending_db) \cup {ids[i] : i \in 1..n} |->
        IF k \in {ids[i] : i \in 1..n} THEN 1 ELSE pending_db[k]]

PutPending(ids, n, subscriber_ids) ==
    [k \in (DOMAIN pending_db) \cup {ids[i] : i \in 1..n} |->
        IF k \in {ids[i] : i \in 1..n} THEN Cardinality(subscriber_ids)
        ELSE pending_db[k]]

PutMetaFirstOnly(ids, n) ==
    [k \in (DOMAIN meta_db) \cup {ids[i] : i \in 1..n \cap {1}} |->
        IF k \in DOMAIN meta_db THEN meta_db[k] ELSE now]

PutMeta(ids, n) ==
    [k \in (DOMAIN meta_db) \cup {ids[i] : i \in 1..n} |->
        IF k \in {ids[i] : i \in 1..n} THEN now ELSE meta_db[k]]

PutData(ids, n, ms) ==
    [k \in (DOMAIN data_db) \cup {ids[i] : i \in 1..n} |->
        IF k \in {ids[i] : i \in 1..n}
        THEN ms[CHOOSE i \in 1..n : ids[i] = k]
        ELSE data_db[k]]

PutInboxesFirstOnly(ids, n, subscriber_ids) ==
    [s \in DOMAIN sub_dbs |->
        IF s \in subscriber_ids THEN sub_dbs[s] \cup {ids[i] : i \in 1..n \cap {1}}
        ELSE sub_dbs[s]]

\* PutInboxes that looks the subscribers up in subscriber_db at the time of
\* the put.
PutInboxesRegistered(ids, n, subscriber_ids) ==
    [s \in DOMAIN sub_dbs |->
        IF s \in subscriber_db THEN sub_dbs[s] \cup {ids[i] : i \in 1..n}
        ELSE sub_dbs[s]]

PutInboxes(ids, n, subscriber_ids) ==
    [s \in DOMAIN sub_dbs |->
        IF s \in subscriber_ids THEN sub_dbs[s] \cup {ids[i] : i \in 1..n}
        ELSE sub_dbs[s]]

\* The message id of put / put_many_flush_once:
\* str(datetime.utcnow().timestamp()) + str(uuid.uuid4()), as the sequence of
\* its characters' code points, which is how LMDB compares keys.  The clock
\* reading t is in hundredths of a second; str() of a float writes the
\* fraction without trailing zeros and with at least one digit.
RECURSIVE Digits(_)
Digits(n) == IF n < 10 THEN <<48 + n>> ELSE Append(Digits(n \div 10), 48 + (n % 10))

Fraction(f) ==
    IF f % 10 = 0 THEN <<48 + (f \div 10)>> ELSE <<48 + (f \div 10), 48 + (f % 10)>>

StrTimestamp(t) == Digits(t \div 100) \o <<46>> \o Fraction(t % 100)

\* StrMsgId with the timestamp written with all its digits.
StrMsgIdFixedWidth(t, uuid) ==
    Digits(t \div 100) \o <<46, 48 + ((t % 100) \div 10), 48 + (t % 10)>> \o uuid

StrMsgId(t, uuid) == StrTimestamp(t) \o uuid

\* The clock readings of one call and the uuids (their first character, "0"
\* or "f") that the ids of one call are made of.
Stamps == 9..11
Uuids == {<<48>>, <<102>>}

\* The order of two keys in a database: bytewise, a proper prefix first.
KeyLess(a, b) ==
    \E k \in 1..(Len(a) + 1) :
        /\ \A i \in 1..(k - 1) : i <= Len(b) /\ a[i] = b[i]
        /\ IF k > Len(a) THEN Len(b) >= k ELSE k <= Len(b) /\ a[k] < b[k]

\* The orders the ids of the n messages of one call can have in a database:
\* order[i] < order[j] when the id of the i-th message sorts before the id of
\* the j-th.  The clock is read once per message and does not stand still.
BatchOrders ==
    [n \in 0..MaxBatch |->
        {order \in [1..n -> 1..n] :
            /\ \A i, j \in 1..n : i # j => order[i] # order[j]
            /\ \E ts \in [1..n -> Stamps] : \E us \in [1..n -> Uuids] :
                  /\ \A i, j \in 1..n : i < j => ts[i] < ts[j]
                  /\ \A i, j \in 1..n :
                        order[i] < order[j]
                            <=> KeyLess(StrMsgId(ts[i], us[i]), StrMsgId(ts[j], us[j]))}]

\* FreshIds without the uuid: an id handed out before can be drawn again.
ReusedIds(n) ==
    {ids \in [1..n -> Ids] :
        /\ \A i, j \in 1..n : i # j => ids[i] # ids[j]
        /\ \E order \in BatchOrders[n] :
              \A i, j \in 1..n : ids[i] < ids[j] <=> order[i] < order[j]}

\* Injective sequences of n fresh ids in an order the ids of one call can
\* have.
FreshIds(n) ==
    {ids \in [1..n -> Ids \ used] :
        /\ \A i, j \in 1..n : i # j => ids[i] # ids[j]
        /\ \E order \in BatchOrders[n] :
              \A i, j \in 1..n : ids[i] < ids[j] <=> order[i] < order[j]}

\* PutWrite whose writes to pending_db, meta_db and data_db stay when the
\* open of a subscriber's sub-DB fails afterwards.
PutWriteUnaborted(p) ==
    /\ ppc[p] = "put_write"
    /\ \E ids \in FreshIds(Len(msgs[p])) :
            /\ pending_db' = PutPending(ids, Len(msgs[p]), queue[p].subscriber_ids)
            /\ meta_db' = PutMeta(ids, Len(msgs[p]))
            /\ data_db' = PutData(ids, Len(msgs[p]), msgs[p])
            /\ used' = used \cup {ids[i] : i \in 1..Len(msgs[p])}
            /\ IF SubDbsExist(queue[p].subscriber_ids)
               THEN /\ sub_dbs' = PutInboxes(ids, Len(msgs[p]), queue[p].subscriber_ids)
                    /\ sent' = sent \o [i \in 1..Len(msgs[p]) |->
                                   [id |-> ids[i], msg |-> msgs[p][i],
                                    subscriber_ids |-> queue[p].subscriber_ids,
                                    by |-> p, n |-> Len(msgs[p])]]
               ELSE UNCHANGED <<sub_dbs, sent>>
    /\ ppc' = [ppc EXCEPT ![p] = "idle"]
    /\ msgs' = [msgs EXCEPT ![p] = <<>>]
    /\ UNCHANGED <<dbs, queue_db, subscriber_db, now, queue, msgs_to_delete,
                   msgs_to_delete_timeout, messages_to_delete, convars,
                   ctlvars, watched, left, acked, limit_reached>>

PutWrite(p) ==
    /\ ppc[p] = "put_write"
    /\ IF SubDbsExist(queue[p].subscriber_ids)
       THEN \E ids \in FreshIds(Len(msgs[p])) :
            /\ pending_db' = PutPending(ids, Len(msgs[p]), queue[p].subscriber_ids)
            /\ meta_db' = PutMeta(ids, Len(msgs[p]))
            /\ data_db' = PutData(ids, Len(msgs[p]), msgs[p])
            /\ sub_dbs' = PutInboxes(ids, Len(msgs[p]), queue[p].subscriber_ids)
            /\ used' = used \cup {ids[i] : i \in 1..Len(msgs[p])}
            /\ sent' = sent \o [i \in 1..Len(msgs[p]) |->
                           [id |-> ids[i], msg |-> msgs[p][i],
                            subscriber_ids |-> queue[p].subscriber_ids,
                            by |-> p, n |-> Len(msgs[p])]]
       ELSE \* lmdb.NotFoundError: the transaction aborts, put raises
            UNCHANGED <<pending_db, meta_db, data_db, sub_dbs, used, sent>>
    /\ ppc' = [ppc EXCEPT ![p] = "idle"]
    /\ msgs' = [msgs EXCEPT ![p] = <<>>]
    /\ UNCHANGED <<dbs, queue_db, subscriber_db, now, queue, msgs_to_delete,
                   msgs_to_delete_timeout, messages_to_delete, convars,
                   ctlvars, watched, left, acked, limit_reached>>

\* -------------------------------------------------------------- the clock

Tick ==
    /\ now < MaxTime
    /\ now' = now + 1
    /\ UNCHANGED <<store, used, queue, pubvars, convars, ctlvars, history>>

\* ------------------------------------------------------------ subscribers

\* _Queue.pop(sub_id, msg_id): the key it works on is msg_id when given and
\* else the first key of the sub-DB.
PopKey(sub, id) == IF id = NoId THEN First(sub_dbs[sub]) ELSE id

\* What pop(sub_id, msg_id) raises.
NotFoundError == "lmdb.NotFoundError"
NoMessageToPop == "RuntimeError: No message to pop"
TypeError == "TypeError"
AssertionError == "AssertionError"
NoError == "no error"

\* PopRaises without the test `if cursor.first()`: on an empty sub-DB
\* cursor.key() gives the empty key, which pending_db does not hold, and a
\* msg_id given is looked up in pending_db.
PopRaisesUntested(sub, id) ==
    IF sub \notin DOMAIN sub_dbs THEN NotFoundError
    ELSE IF id = NoId /\ sub_dbs[sub] = {} THEN TypeError
    ELSE IF PopKey(sub, id) \notin DOMAIN pending_db THEN TypeError
    ELSE IF pending_db[PopKey(sub, id)] - 1 < 0 THEN AssertionError
    ELSE NoError

\* The exception the transaction of pop ends with: the sub-DB does not exist
\* (open_db with create=False), it is empty, pending_db does not hold the key
\* (bytes_to_int(None)), or the decreased count is negative.
PopRaises(sub, id) ==
    IF sub \notin DOMAIN sub_dbs THEN NotFoundError
    ELSE IF sub_dbs[sub] = {} THEN NoMessageToPop
    ELSE IF PopKey(sub, id) \notin DOMAIN pending_db THEN TypeError
    ELSE IF pending_db[PopKey(sub, id)] - 1 < 0 THEN AssertionError
    ELSE NoError

\* PopCommits without the assertion on the decreased count.
PopCommitsUnasserted(sub, id) ==
    /\ sub \in DOMAIN sub_dbs
    /\ sub_dbs[sub] # {}
    /\ PopKey(sub, id) \in DOMAIN pending_db

\* Whether the transaction of pop commits: the sub-DB exists (else
\* lmdb.NotFoundError) and is not empty (else RuntimeError "No message to
\* pop"), pending_db holds the key (else bytes_to_int(None) raises TypeError)
\* and the decreased count is >= 0 (else the assertion fails).
PopCommits(sub, id) == PopRaises(sub, id) = NoError

\* PoppedInbox with the cursor.pop(key) left out.
PoppedInboxKeepsKey(sub, id) == sub_dbs

\* cursor.pop(key) on the sub-DB: the key leaves it (nothing when absent).
PoppedInbox(sub, id) == [sub_dbs EXCEPT ![sub] = @ \ {PopKey(sub, id)}]

\* The pending count written back.
PoppedPending(sub, id) == [pending_db EXCEPT ![PopKey(sub, id)] = @ - 1]

\* Poll that holds the store across the yield: a receive waits until no
\* other handle is inside its block.
PollWaiting(c) ==
    /\ cpc[c] \in {"idle", "poll"}
    /\ \A d \in Cons \ {c} : cpc[d] # "in_block"
    /\ IF Identifier(c) \in DOMAIN sub_dbs
       THEN /\ msg_id' = [msg_id EXCEPT ![c] = FrontKey(Identifier(c))]
            /\ msg' = [msg EXCEPT ![c] = FrontMsg(Identifier(c))]
            /\ cpc' = [cpc EXCEPT ![c] = "in_block"]
       ELSE /\ cpc[c] = "poll"
            /\ cpc' = [cpc EXCEPT ![c] = "idle"]
            /\ UNCHANGED <<msg_id, msg>>
    /\ UNCHANGED <<store, now, used, queue, pubvars, msg_to_pop_num, ctlvars,
                   history>>

\* Subscriber.receive, one pass of its loop that ends it: front() in a read
\* transaction; a message is yielded at once, no message is yielded as None
\* when the deadline has passed (a pass that sleeps and retries changes
\* nothing).  The caller's block then runs.  front() on a missing sub-DB
\* raises lmdb.NotFoundError.
Poll(c) ==
    /\ cpc[c] \in {"idle", "poll"}
    /\ IF Identifier(c) \in DOMAIN sub_dbs
       THEN /\ msg_id' = [msg_id EXCEPT ![c] = FrontKey(Identifier(c))]
            /\ msg' = [msg EXCEPT ![c] = FrontMsg(Identifier(c))]
            /\ cpc' = [cpc EXCEPT ![c] = "in_block"]
       ELSE /\ cpc[c] = "poll"
            /\ cpc' = [cpc EXCEPT ![c] = "idle"]
            /\ UNCHANGED <<msg_id, msg>>
    /\ UNCHANGED <<store, now, used, queue, pubvars, msg_to_pop_num, ctlvars,
                   history>>

\* Exit without the test of msg_id: pop is called with whatever front gave.
ExitPopsAnyway(c) ==
    /\ cpc[c] = "in_block"
    /\ IF PopCommits(Identifier(c), msg_id[c])
       THEN /\ sub_dbs' = PoppedInbox(Identifier(c), msg_id[c])
            /\ pending_db' = PoppedPending(Identifier(c), msg_id[c])
       ELSE UNCHANGED <<sub_dbs, pending_db>>
    /\ cpc' = [cpc EXCEPT ![c] = "idle"]
    /\ msg_id' = [msg_id EXCEPT ![c] = NoId]
    /\ msg' = [msg EXCEPT ![c] = None]
    /\ UNCHANGED <<data_db, meta_db, dbs, queue_db, subscriber_db, now, used, queue,
                   pubvars, msg_to_pop_num, ctlvars, history>>

\* Leaving the block of receive / receive_to_top without an exception: the
\* generator resumes after its yield and, if the last front() gave an id,
\* calls _pop(msg_id), i.e. queue.pop(sub_id, msg_id).
Exit(c) ==
    /\ cpc[c] = "in_block"
    /\ IF msg_id[c] # NoId /\ PopCommits(Identifier(c), msg_id[c])
       THEN /\ sub_dbs' = PoppedInbox(Identifier(c), msg_id[c])
            /\ pending_db' = PoppedPending(Identifier(c), msg_id[c])
            /\ acked' = [acked EXCEPT ![Identifier(c)] =
                   IF Identifier(c) \in watched THEN @ \cup {msg_id[c]} ELSE @]
       ELSE UNCHANGED <<sub_dbs, pending_db, acked>>
    /\ left' = [left EXCEPT ![Identifier(c)] =
           IF msg[c] # None /\ Identifier(c) \in watched THEN @ \cup {msg_id[c]} ELSE @]
    /\ cpc' = [cpc EXCEPT ![c] = "idle"]
    /\ msg_id' = [msg_id EXCEPT ![c] = NoId]
    /\ msg' = [msg EXCEPT ![c] = None]
    /\ UNCHANGED <<data_db, meta_db, dbs, queue_db, subscriber_db, now, used, queue,
                   pubvars, msg_to_pop_num, ctlvars, watched, sent, limit_reached>>

\* ExitRaising with the pop in the finally clause.
ExitRaisingPops(c) == Exit(c)

\* Leaving the block by an exception of the caller's code: it is thrown into
\* the generator at its yield, `finally: pass` lets it through and the
\* statements after the try (the pop) are not reached.
ExitRaising(c) ==
    /\ cpc[c] = "in_block"
    /\ left' = [left EXCEPT ![Identifier(c)] =
           IF msg[c] # None /\ Identifier(c) \in watched THEN @ \cup {msg_id[c]} ELSE @]
    /\ cpc' = [cpc EXCEPT ![c] = "idle"]
    /\ msg_id' = [msg_id EXCEPT ![c] = NoId]
    /\ msg' = [msg EXCEPT ![c] = None]
    /\ UNCHANGED <<store, now, used, queue, pubvars, msg_to_pop_num, ctlvars,
                   watched, acked, sent, limit_reached>>

\* TopStat that counts every entry of the sub-DB, the most recent included.
TopStatPopsAll(c) ==
    /\ cpc[c] = "idle"
    /\ Identifier(c) \in DOMAIN sub_dbs
    /\ msg_to_pop_num' = [msg_to_pop_num EXCEPT ![c] =
           Cardinality(sub_dbs[Identifier(c)])]
    /\ cpc' = [cpc EXCEPT ![c] =
           IF Cardinality(sub_dbs[Identifier(c)]) > 0 THEN "to_top" ELSE "poll"]
    /\ UNCHANGED <<store, now, used, queue, pubvars, msg_id, msg, ctlvars,
                   history>>

\* Subscriber.receive_to_top, first transaction: entries of the sub-DB - 1
\* messages are to be popped (lmdb.NotFoundError when it does not exist).
TopStat(c) ==
    /\ cpc[c] = "idle"
    /\ Identifier(c) \in DOMAIN sub_dbs
    /\ msg_to_pop_num' = [msg_to_pop_num EXCEPT ![c] =
           IF Cardinality(sub_dbs[Identifier(c)]) - 1 > 0
           THEN Cardinality(sub_dbs[Identifier(c)]) - 1 ELSE 0]
    /\ cpc' = [cpc EXCEPT ![c] =
           IF Cardinality(sub_dbs[Identifier(c)]) - 1 > 0 THEN "to_top" ELSE "poll"]
    /\ UNCHANGED <<store, now, used, queue, pubvars, msg_id, msg, ctlvars,
                   history>>

\* receive_to_top: one queue.pop(sub_id) of the loop; a failing pop ends
\* receive_to_top with its exception.
TopPop(c) ==
    /\ cpc[c] = "to_top"
    /\ IF PopCommits(Identifier(c), NoId)
       THEN /\ sub_dbs' = PoppedInbox(Identifier(c), NoId)
            /\ pending_db' = PoppedPending(Identifier(c), NoId)
            /\ msg_to_pop_num' = [msg_to_pop_num EXCEPT ![c] = @ - 1]
            /\ cpc' = [cpc EXCEPT ![c] =
                   IF msg_to_pop_num[c] - 1 > 0 THEN "to_top" ELSE "poll"]
       ELSE /\ UNCHANGED <<sub_dbs, pending_db>>
            /\ msg_to_pop_num' = [msg_to_pop_num EXCEPT ![c] = 0]
            /\ cpc' = [cpc EXCEPT ![c] = "idle"]
    /\ UNCHANGED <<data_db, meta_db, dbs, queue_db, subscriber_db, now, used, queue,
                   pubvars, msg_id, msg, ctlvars, history>>

\* _Queue.pop(sub_id) called directly, without msg_id.
pop(c) ==
    /\ cpc[c] = "idle"
    /\ PopCommits(Identifier(c), NoId)
    /\ sub_dbs' = PoppedInbox(Identifier(c), NoId)
    /\ pending_db' = PoppedPending(Identifier(c), NoId)
    /\ UNCHANGED <<data_db, meta_db, dbs, queue_db, subscriber_db, now, used, queue,
                   pubvars, convars, ctlvars, history>>

\* ---------------------------------------------------------------- Control

\* Control._add_sub: create the sub-DB, enter the id in subscriber_db (which
\* is created when it does not exist).
AddedSubDb(sub) ==
    [s \in (DOMAIN sub_dbs) \cup {sub} |-> IF s \in DOMAIN sub_dbs THEN sub_dbs[s] ELSE {}]

_add_sub(sub) ==
    /\ ctl_calls < MaxCtl
    /\ ctl_calls' = ctl_calls + 1
    /\ sub_dbs' = AddedSubDb(sub)
    /\ subscriber_db' = subscriber_db \cup {sub}
    /\ dbs' = dbs \cup {SUBSCRIBER_DB}
    /\ UNCHANGED <<data_db, meta_db, pending_db, queue_db, now, used, queue,
                   pubvars, convars, ctl_subscriber_ids, ctl_args, history>>

\* The ids of the subscriber's sub-DB (none when it does not exist).
MsgOfSub(sub) == IF sub \in DOMAIN sub_dbs THEN sub_dbs[sub] ELSE {}

\* Every id of ids has a pending count that can be decreased; otherwise
\* bytes_to_int(None) or the assertion raises and the transaction aborts.
CanDecrease(ids) == \A k \in ids : k \in DOMAIN pending_db /\ pending_db[k] - 1 >= 0

Decreased(ids) == [k \in DOMAIN pending_db |->
                       IF k \in ids THEN pending_db[k] - 1 ELSE pending_db[k]]

DroppedSubDb(subs) == [s \in (DOMAIN sub_dbs) \ subs |-> sub_dbs[s]]

\* _remove_sub that leaves the id in subscriber_db.
RemoveSubKeepsKey(sub) ==
    /\ ctl_calls < MaxCtl
    /\ ctl_calls' = ctl_calls + 1
    /\ IF CanDecrease(MsgOfSub(sub))
       THEN /\ sub_dbs' = DroppedSubDb({sub})
            /\ pending_db' = Decreased(MsgOfSub(sub))
            /\ ctl_subscriber_ids' = ctl_subscriber_ids \ {sub}
            /\ UNCHANGED subscriber_db
       ELSE UNCHANGED <<sub_dbs, pending_db, subscriber_db, ctl_subscriber_ids>>
    /\ UNCHANGED <<dbs, data_db, meta_db, queue_db, now, used, queue, pubvars,
                   convars, ctl_args, history>>

\* Control._remove_sub: drop the sub-DB, decrease the pending count of its
\* messages, delete the id from subscriber_db and from the Control's set.
_remove_sub(sub) ==
    /\ ctl_calls < MaxCtl
    /\ ctl_calls' = ctl_calls + 1
    /\ IF CanDecrease(MsgOfSub(sub))
       THEN /\ sub_dbs' = DroppedSubDb({sub})
            /\ pending_db' = Decreased(MsgOfSub(sub))
            /\ subscriber_db' = subscriber_db \ {sub}
            /\ ctl_subscriber_ids' = ctl_subscriber_ids \ {sub}
       ELSE UNCHANGED <<sub_dbs, pending_db, subscriber_db, ctl_subscriber_ids>>
    /\ UNCHANGED <<dbs, data_db, meta_db, queue_db, now, used, queue, pubvars,
                   convars, ctl_args, history>>

\* Control._prune_all_messages_for: empty the sub-DB, decrease the pending
\* count of its messages (lmdb.NotFoundError when it does not exist).
_prune_all_messages_for(sub) ==
    /\ ctl_calls < MaxCtl
    /\ ctl_calls' = ctl_calls + 1
    /\ IF sub \in DOMAIN sub_dbs /\ CanDecrease(MsgOfSub(sub))
       THEN /\ sub_dbs' = [sub_dbs EXCEPT ![sub] = {}]
            /\ pending_db' = Decreased(MsgOfSub(sub))
       ELSE UNCHANGED <<sub_dbs, pending_db>>
    /\ UNCHANGED <<data_db, meta_db, dbs, queue_db, subscriber_db, now, used, queue,
                   pubvars, convars, ctl_subscriber_ids, ctl_args, history>>

\* Control.clear_all_subscribers: drop the sub-DB of every subscriber the
\* Control knows, empty pending_db, meta_db and data_db.
clear_all_subscribers ==
    /\ ctl_calls < MaxCtl
    /\ ctl_calls' = ctl_calls + 1
    /\ sub_dbs' = DroppedSubDb(ctl_subscriber_ids)
    /\ pending_db' = <<>>
    /\ meta_db' = <<>>
    /\ data_db' = <<>>
    /\ UNCHANGED <<dbs, queue_db, subscriber_db, now, used, queue, pubvars, convars,
                   ctl_subscriber_ids, ctl_args, history>>

\* prune_dangling_messages that does not collect the ids with pending count
\* 0.
PruneDanglingTimeoutOnly ==
    /\ ctl_calls < MaxCtl
    /\ ctl_calls' = ctl_calls + 1
    /\ ppc[Ctl] = "idle"
    /\ msgs_to_delete' = [msgs_to_delete EXCEPT ![Ctl] = {}]
    /\ ppc' = [ppc EXCEPT ![Ctl] = "prune_read_meta"]
    /\ UNCHANGED <<store, now, used, queue, msgs, msgs_to_delete_timeout,
                   messages_to_delete, convars, ctl_subscriber_ids, ctl_args, history>>

\* Control.prune_dangling_messages: _prune_dangling_messages_for with the
\* Control's queue and the Control's subscriber ids.
prune_dangling_messages ==
    /\ ctl_calls < MaxCtl
    /\ ctl_calls' = ctl_calls + 1
    /\ ppc[Ctl] = "idle"
    /\ msgs_to_delete' = [msgs_to_delete EXCEPT ![Ctl] =
           {k \in DOMAIN pending_db : pending_db[k] = 0}]
    /\ ppc' = [ppc EXCEPT ![Ctl] = "prune_read_meta"]
    /\ UNCHANGED <<store, now, used, queue, msgs, msgs_to_delete_timeout,
                   messages_to_delete, convars, ctl_subscriber_ids, ctl_args, history>>

\* queue_db between the first and the second put of set_hwm, as a reader
\* would find it were the three puts not one transaction.
WrittenHwmSizeOnly(hwm) ==
    [k \in (DOMAIN queue_db) \cup {HWM_DB_SIZE_KEY} |->
        IF k = HWM_DB_SIZE_KEY THEN int_to_bytes(hwm.hwm_lmdb_size)
        ELSE queue_db[k]]

\* The content of queue_db after the puts of Control.set_hwm and of
\* Control.set_strategy.
WrittenHwm(hwm) ==
    [k \in (DOMAIN queue_db) \cup {HWM_DB_SIZE_KEY, MAX_MESSAGES_KEY, MESSAGE_TIMEOUT_KEY} |->
        IF k = HWM_DB_SIZE_KEY THEN int_to_bytes(hwm.hwm_lmdb_size)
        ELSE IF k = MAX_MESSAGES_KEY THEN int_to_bytes(hwm.max_messages)
        ELSE IF k = MESSAGE_TIMEOUT_KEY THEN int_to_bytes(hwm.message_timeout)
        ELSE queue_db[k]]

WrittenStrategy(strategy) ==
    [k \in (DOMAIN queue_db) \cup {STRATEGY_KEY} |->
        IF k = STRATEGY_KEY THEN str_to_bytes(strategy) ELSE queue_db[k]]

\* Control.set_hwm and Control.set_strategy: write the reserved keys into
\* queue_db, which is created when it does not exist.
set_hwm(hwm) ==
    /\ ctl_calls < MaxCtl
    /\ ctl_calls' = ctl_calls + 1
    /\ queue_db' = WrittenHwm(hwm)
    /\ dbs' = dbs \cup {QUEUE_DB}
    /\ UNCHANGED <<data_db, meta_db, pending_db, subscriber_db, sub_dbs, now,
                   used, queue, pubvars, convars, ctl_subscriber_ids, ctl_args,
                   history>>

set_strategy(strategy) ==
    /\ ctl_calls < MaxCtl
    /\ ctl_calls' = ctl_calls + 1
    /\ queue_db' = WrittenStrategy(strategy)
    /\ dbs' = dbs \cup {QUEUE_DB}
    /\ UNCHANGED <<data_db, meta_db, pending_db, subscriber_db, sub_dbs, now,
                   used, queue, pubvars, convars, ctl_subscriber_ids, ctl_args,
                   history>>

AttributeError == "AttributeError"

\* The exception the read transaction of retrieve_queue_data ends with:
\* queue_db does not exist (open_db with create=False), a number is not set
\* (bytes_to_int(None)), the strategy is not set (bytes_to_str(None)), or
\* subscriber_db does not exist.
RetrieveRaises ==
    IF QUEUE_DB \notin dbs THEN NotFoundError
    ELSE IF ~({MESSAGE_TIMEOUT_KEY, MAX_MESSAGES_KEY, HWM_DB_SIZE_KEY}
                 \subseteq DOMAIN queue_db) THEN TypeError
    ELSE IF STRATEGY_KEY \notin DOMAIN queue_db THEN AttributeError
    ELSE IF SUBSCRIBER_DB \notin dbs THEN NotFoundError
    ELSE NoError

\* is_initialized that never finds the queue initialised.
is_initialized_never == "False"

\* Control.is_initialized: True when retrieve_queue_data returns, False when
\* it raises lmdb.NotFoundError; any other exception goes on to the caller.
is_initialized ==
    IF RetrieveRaises = NoError THEN "True"
    ELSE IF RetrieveRaises = NotFoundError THEN "False"
    ELSE RetrieveRaises

\* The exception _Queue.init ends with after its write transaction.
QueueInitRaises ==
    IF RetrieveRaises # NoError THEN RetrieveRaises
    ELSE IF Cached.strategy = ValueError THEN ValueError
    ELSE NoError

\* _Queue.init of a new Publisher on the open environment.  Its write
\* transaction creates the reserved sub-DBs that do not exist; then the
\* configuration and the subscriber ids are read and cached.  When no sub-DB
\* is to be created the write transaction changes nothing and the two are
\* one step.  When the read raises, so does the open, and there is no new
\* handle.
init(p) ==
    /\ p \in Pubs
    /\ ppc[p] = "idle"
    /\ ctl_calls < MaxCtl
    /\ ctl_calls' = ctl_calls + 1
    /\ IF Reserved \subseteq dbs
       THEN /\ queue' = IF QueueInitRaises = NoError
                         THEN [queue EXCEPT ![p] = Cached] ELSE queue
            /\ UNCHANGED <<dbs, ppc>>
       ELSE /\ dbs' = dbs \cup Reserved
            /\ ppc' = [ppc EXCEPT ![p] = "open_retrieve"]
            /\ UNCHANGED queue
    /\ UNCHANGED <<data_db, meta_db, pending_db, queue_db, subscriber_db,
                   sub_dbs, now, used, msgs, msgs_to_delete,
                   msgs_to_delete_timeout, messages_to_delete, convars,
                   ctl_subscriber_ids, ctl_args, history>>

OpenRetrieve(p) ==
    /\ p \in Pubs
    /\ ppc[p] = "open_retrieve"
    /\ queue' = IF QueueInitRaises = NoError
                 THEN [queue EXCEPT ![p] = Cached] ELSE queue
    /\ ppc' = [ppc EXCEPT ![p] = "idle"]
    /\ UNCHANGED <<store, now, used, msgs, msgs_to_delete,
                   msgs_to_delete_timeout, messages_to_delete, convars, ctlvars,
                   history>>

\* self.hwm = None, self.strategy = None, self.subscriber_ids = None of a
\* _Queue that was not opened.
Unset == -1
Unopened ==
    [hwm |-> [message_timeout |-> Unset, max_messages |-> Unset,
              hwm_lmdb_size |-> Unset],
     strategy |-> None, subscriber_ids |-> {}]

\* No first-time initialisation is under way.
NoArgs == [hwm |-> Unopened.hwm, strategy |-> None, to_add |-> {}]

\* Control.init(subscriber_ids, high_water_mark, strategy), first step: the
\* read transaction of is_initialized.  On True the queue is opened anew and
\* the arguments are not used; on False _initialize_queue starts with
\* self.subscriber_ids = set(subscriber_ids); an exception of is_initialized
\* ends the call.
Control_init(subscriber_ids, high_water_mark, strategy) ==
    /\ ppc[Ctl] = "idle"
    /\ ctl_calls < MaxCtl
    /\ ctl_calls' = ctl_calls + 1
    /\ IF is_initialized = "True"
       THEN /\ ppc' = [ppc EXCEPT ![Ctl] = "reinitialize"]
            /\ UNCHANGED <<ctl_subscriber_ids, ctl_args>>
       ELSE IF is_initialized = "False"
       THEN /\ ppc' = [ppc EXCEPT ![Ctl] = "set_hwm"]
            /\ ctl_subscriber_ids' = subscriber_ids
            /\ ctl_args' = [hwm |-> high_water_mark, strategy |-> strategy,
                            to_add |-> subscriber_ids]
       ELSE UNCHANGED <<ppc, ctl_subscriber_ids, ctl_args>>
    /\ UNCHANGED <<store, now, used, queue, msgs, msgs_to_delete,
                   msgs_to_delete_timeout, messages_to_delete, convars, history>>

\* _initialize_queue: self.set_hwm(hwm=high_water_mark).
InitializeSetHwm ==
    /\ ppc[Ctl] = "set_hwm"
    /\ queue_db' = WrittenHwm(ctl_args.hwm)
    /\ dbs' = dbs \cup {QUEUE_DB}
    /\ ppc' = [ppc EXCEPT ![Ctl] = "set_strategy"]
    /\ UNCHANGED <<data_db, meta_db, pending_db, subscriber_db, sub_dbs, now,
                   used, queue, msgs, msgs_to_delete, msgs_to_delete_timeout,
                   messages_to_delete, convars, ctlvars, history>>

\* _initialize_queue: self.set_strategy(strategy=strategy).
InitializeSetStrategy ==
    /\ ppc[Ctl] = "set_strategy"
    /\ queue_db' = WrittenStrategy(ctl_args.strategy)
    /\ dbs' = dbs \cup {QUEUE_DB}
    /\ ppc' = [ppc EXCEPT ![Ctl] =
           IF ctl_args.to_add = {} THEN "initialize_open" ELSE "add_sub"]
    /\ UNCHANGED <<data_db, meta_db, pending_db, subscriber_db, sub_dbs, now,
                   used, queue, msgs, msgs_to_delete, msgs_to_delete_timeout,
                   messages_to_delete, convars, ctlvars, history>>

\* _initialize_queue: one self._add_sub(sub_id=sub) of the loop over
\* self.subscriber_ids.
InitializeAddSub ==
    /\ ppc[Ctl] = "add_sub"
    /\ \E sub \in ctl_args.to_add :
          /\ sub_dbs' = AddedSubDb(sub)
          /\ subscriber_db' = subscriber_db \cup {sub}
          /\ dbs' = dbs \cup {SUBSCRIBER_DB}
          /\ ctl_args' = [ctl_args EXCEPT !.to_add = @ \ {sub}]
          /\ ppc' = [ppc EXCEPT ![Ctl] =
                 IF ctl_args.to_add = {sub} THEN "initialize_open" ELSE "add_sub"]
    /\ UNCHANGED <<data_db, meta_db, pending_db, queue_db, now, used, queue,
                   msgs, msgs_to_delete, msgs_to_delete_timeout,
                   messages_to_delete, convars, ctl_subscriber_ids, ctl_calls,
                   history>>

\* The read of the Control's _Queue.init: the queue is cached, and
\* _reinitialize_queue takes the Control's subscriber_ids from it.
ControlCaches ==
    /\ IF QueueInitRaises = NoError
       THEN /\ queue' = [queue EXCEPT ![Ctl] = Cached]
            /\ ctl_subscriber_ids' =
                   IF ppc[Ctl] \in {"reinitialize", "reinitialize_retrieve"}
                   THEN Cached.subscriber_ids ELSE ctl_subscriber_ids
       ELSE UNCHANGED <<queue, ctl_subscriber_ids>>
    /\ ppc' = [ppc EXCEPT ![Ctl] = "idle"]
    /\ ctl_args' = NoArgs

\* _reinitialize_queue / the end of _initialize_queue: _Queue.init of the
\* Control's queue, in one step when no sub-DB is to be created.
ControlQueueInit ==
    /\ ppc[Ctl] \in {"reinitialize", "initialize_open"}
    /\ IF Reserved \subseteq dbs
       THEN ControlCaches /\ UNCHANGED dbs
       ELSE /\ dbs' = dbs \cup Reserved
            /\ ppc' = [ppc EXCEPT ![Ctl] =
                   IF ppc[Ctl] = "reinitialize" THEN "reinitialize_retrieve"
                   ELSE "initialize_retrieve"]
            /\ UNCHANGED <<queue, ctl_subscriber_ids, ctl_args>>
    /\ UNCHANGED <<data_db, meta_db, pending_db, queue_db, subscriber_db,
                   sub_dbs, now, used, msgs, msgs_to_delete,
                   msgs_to_delete_timeout, messages_to_delete, convars,
                   ctl_calls, history>>

ControlRetrieve ==
    /\ ppc[Ctl] \in {"reinitialize_retrieve", "initialize_retrieve"}
    /\ ControlCaches
    /\ UNCHANGED <<store, now, used, msgs, msgs_to_delete,
                   msgs_to_delete_timeout, messages_to_delete, convars,
                   ctl_calls, history>>

\* ------------------------------------------------------------ initial state

\* The state after Control.init(subscriber_ids, high_water_mark, strategy) on
\* a new directory (set_hwm, set_strategy, _add_sub for every id, then
\* _Queue.init) and after the publishers and subscribers were opened.
InitWith(subscriber_ids, hwm, strategy, watch) ==
    /\ data_db = <<>>
    /\ meta_db = <<>>
    /\ pending_db = <<>>
    /\ dbs = Reserved
    /\ queue_db = [message_timeout |-> int_to_bytes(hwm.message_timeout),
                   max_messages |-> int_to_bytes(hwm.max_messages),
                   hwm_db_size |-> int_to_bytes(hwm.hwm_lmdb_size),
                   strategy |-> str_to_bytes(strategy)]
    /\ subscriber_db = subscriber_ids
    /\ sub_dbs = [s \in subscriber_ids |-> {}]
    /\ now = 0
    /\ used = {}
    /\ queue = [p \in Handles |->
                   [hwm |-> hwm, strategy |-> strategy,
                    subscriber_ids |-> subscriber_ids]]
    /\ ppc = [p \in Handles |-> "idle"]
    /\ msgs = [p \in Handles |-> <<>>]
    /\ msgs_to_delete = [p \in Handles |-> {}]
    /\ msgs_to_delete_timeout = [p \in Handles |-> {}]
    /\ messages_to_delete = [p \in Handles |-> {}]
    /\ cpc = [c \in Cons |-> "idle"]
    /\ msg_id = [c \in Cons |-> NoId]
    /\ msg = [c \in Cons |-> None]
    /\ msg_to_pop_num = [c \in Cons |-> 0]
    /\ ctl_subscriber_ids = subscriber_ids
    /\ ctl_calls = 0
    /\ ctl_args = NoArgs
    /\ watched = watch
    /\ left = [s \in Subs |-> {}]
    /\ acked = [s \in Subs |-> {}]
    /\ sent = <<>>
    /\ limit_reached = FALSE

Publisher(p) ==
    \/ put(p)
    \/ put_many_flush_once(p)
    \/ PruneReadMeta(p)
    \/ PruneWrite(p)
    \/ CountMsgs(p)
    \/ CheckSize(p)
    \/ HalfRead(p)
    \/ HalfWrite(p)
    \/ PutWrite(p)

Subscriber(c) ==
    \/ Poll(c)
    \/ Exit(c)
    \/ ExitRaising(c)
    \/ TopStat(c)
    \/ TopPop(c)
    \/ pop(c)

Control ==
    \/ \E sub \in Subs : _add_sub(sub)
    \/ \E sub \in Subs : _remove_sub(sub)
    \/ \E sub \in Subs : _prune_all_messages_for(sub)
    \/ clear_all_subscribers
    \/ prune_dangling_messages
    \/ PruneReadMeta(Ctl)
    \/ PruneWrite(Ctl)
    \/ \E hwm \in HwmChoices : set_hwm(hwm)
    \/ \E strategy \in {PRUNE_FIRST, PRUNE_LAST} : set_strategy(strategy)
    \/ init("p1")

\* ---------------------------------------------------------- specifications

\* Spec: one publisher, one subscriber handle and the Control on one queue.
Init == \E hwm \in {Roomy, FewMessages} : InitWith(Subs, hwm, PRUNE_FIRST, {})

Next ==
    \/ Publisher("p1")
    \/ Subscriber("c1")
    \/ Control
    \/ Tick

Spec == Init /\ [][Next]_vars

\* SpecPub: the publishers alone, for every subscriber set, high water mark
\* and strategy the queue can be initialised with.
InitPub ==
    \E subscriber_ids \in SUBSET Subs : \E hwm \in HwmChoices :
        \E strategy \in {PRUNE_FIRST, PRUNE_LAST} :
            InitWith(subscriber_ids, hwm, strategy, {})

NextPub ==
    \/ \E p \in Pubs : Publisher(p)
    \/ Tick

SpecPub == InitPub /\ [][NextPub]_vars

\* SpecSub: one publisher and subscriber "b", served by its one handle.
InitSub ==
    \E hwm \in HwmChoices : \E strategy \in {PRUNE_FIRST, PRUNE_LAST} :
        InitWith(Subs, hwm, strategy, {"b"})

NextSub ==
    \/ Publisher("p1")
    \/ Subscriber("c3")
    \/ Tick

SpecSub == InitSub /\ [][NextSub]_vars

\* SpecAck: one publisher, subscriber "a" served by two handles and
\* subscriber "b" served by one.
InitAck == \E hwm \in {Roomy, FewMessages} : InitWith(Subs, hwm, PRUNE_FIRST, {})

NextAck ==
    \/ Publisher("p1")
    \/ \E c \in Cons : Subscriber(c)
    \/ Tick

SpecAck == InitAck /\ [][NextAck]_vars

\* SpecLive: one publisher, subscribers "a" and "b" each in a loop of
\* receive.  Each pass of receive's loop and each return from the caller's
\* block is a step of a running thread: weak fairness.
Receive(c) ==
    \/ Poll(c)
    \/ Exit(c)
    \/ ExitRaising(c)

InitLive ==
    \E hwm \in {Roomy, ShortLived, FewMessages} :
        InitWith(Subs, hwm, PRUNE_FIRST, {})

NextLive ==
    \/ Publisher("p1")
    \/ \E c \in {"c1", "c3"} : Receive(c)
    \/ Tick

SpecLive ==
    /\ InitLive
    /\ [][NextLive]_vars
    /\ \A c \in {"c1", "c3"} : WF_vars(Poll(c)) /\ WF_vars(Exit(c))

\* SpecHead: one publisher, subscriber "a" served by two handles and
\* subscriber "b" served by one, every block left without an exception and
\* the clock standing still.  The publisher's put with its cleanup, each
\* pass of receive's loop and each return from the caller's block are steps
\* of running threads: weak fairness.
InitHead ==
    \E hwm \in {ShortLived, FewMessages} :
        InitWith(Subs, hwm, PRUNE_FIRST, {})

PutOne(p) ==
    \/ put(p)
    \/ PruneReadMeta(p)
    \/ PruneWrite(p)
    \/ CountMsgs(p)
    \/ CheckSize(p)
    \/ HalfRead(p)
    \/ HalfWrite(p)
    \/ PutWrite(p)

NextHead ==
    \/ PutOne("p1")
    \/ \E c \in Cons : Poll(c)
    \/ \E c \in Cons : Exit(c)

SpecHead ==
    /\ InitHead
    /\ [][NextHead]_vars
    /\ WF_vars(PutOne("p1"))
    /\ \A c \in Cons : WF_vars(Poll(c)) /\ WF_vars(Exit(c))

\* SpecRetain: one publisher and one handle for each of the two subscribers,
\* for every high water mark and strategy.
InitRetain ==
    \E hwm \in HwmChoices : \E strategy \in {PRUNE_FIRST, PRUNE_LAST} :
        InitWith(Subs, hwm, strategy, {})

NextRetain ==
    \/ Publisher("p1")
    \/ Subscriber("c1")
    \/ Subscriber("c3")
    \/ Tick

SpecRetain == InitRetain /\ [][NextRetain]_vars

\* SpecHalf: one publisher that calls put on a queue which holds n messages
\* already, for every n up to MaxStored, every max_messages up to
\* MaxStored + 1 and either strategy.  The n messages were put at time 0 by
\* one put_many_flush_once call, which writes any number of messages into an
\* empty queue, and no subscriber has read them; their ids are -n .. -1 in
\* the order they were put, smaller than the ids of the run.
Holding(m) ==
    [message_timeout |-> MaxTime, max_messages |-> m,
     hwm_lmdb_size |-> MaxStored + MaxId + 1]

Stored(n, subscriber_ids) ==
    [i \in 1..n |-> [id |-> i - n - 1, msg |-> "x",
                     subscriber_ids |-> subscriber_ids, by |-> "p1", n |-> n]]

InitStored(n, subscriber_ids, hwm, strategy) ==
    /\ data_db = [k \in (-n)..(-1) |-> "x"]
    /\ meta_db = [k \in (-n)..(-1) |-> 0]
    /\ pending_db = [k \in (-n)..(-1) |-> Cardinality(subscriber_ids)]
    /\ dbs = Reserved
    /\ queue_db = [message_timeout |-> int_to_bytes(hwm.message_timeout),
                   max_messages |-> int_to_bytes(hwm.max_messages),
                   hwm_db_size |-> int_to_bytes(hwm.hwm_lmdb_size),
                   strategy |-> str_to_bytes(strategy)]
    /\ subscriber_db = subscriber_ids
    /\ sub_dbs = [s \in subscriber_ids |-> (-n)..(-1)]
    /\ now = 0
    /\ used = {}
    /\ queue = [p \in Handles |->
                   [hwm |-> hwm, strategy |-> strategy,
                    subscriber_ids |-> subscriber_ids]]
    /\ ppc = [p \in Handles |-> "idle"]
    /\ msgs = [p \in Handles |-> <<>>]
    /\ msgs_to_delete = [p \in Handles |-> {}]
    /\ msgs_to_delete_timeout = [p \in Handles |-> {}]
    /\ messages_to_delete = [p \in Handles |-> {}]
    /\ cpc = [c \in Cons |-> "idle"]
    /\ msg_id = [c \in Cons |-> NoId]
    /\ msg = [c \in Cons |-> None]
    /\ msg_to_pop_num = [c \in Cons |-> 0]
    /\ ctl_subscriber_ids = subscriber_ids
    /\ ctl_calls = 0
    /\ ctl_args = NoArgs
    /\ watched = {}
    /\ left = [s \in Subs |-> {}]
    /\ acked = [s \in Subs |-> {}]
    /\ sent = Stored(n, subscriber_ids)
    /\ limit_reached = FALSE

InitHalf ==
    \E n \in 0..MaxStored : \E subscriber_ids \in {{"a"}, Subs} :
        \E hwm \in {Holding(m) : m \in 1..(MaxStored + 1)} \cup {FewPages} :
            \E strategy \in {PRUNE_FIRST, PRUNE_LAST} :
                InitStored(n, subscriber_ids, hwm, strategy)

NextHalf ==
    \/ put("p1")
    \/ PruneReadMeta("p1")
    \/ PruneWrite("p1")
    \/ CountMsgs("p1")
    \/ CheckSize("p1")
    \/ HalfRead("p1")
    \/ HalfWrite("p1")
    \/ PutWrite("p1")

SpecHalf == InitHalf /\ [][NextHalf]_vars

\* SpecNonBlocking: one publisher and subscribers "a" and "b", each in a loop
\* of receive.  The thread of "b" and the thread of the publisher keep
\* running (weak fairness on their steps); nothing is assumed about the
\* thread of "a", which may stay inside its block for ever.
PutRuns(p) ==
    \/ PruneReadMeta(p)
    \/ PruneWrite(p)
    \/ CountMsgs(p)
    \/ CheckSize(p)
    \/ HalfRead(p)
    \/ HalfWrite(p)
    \/ PutWrite(p)

InitNonBlocking ==
    \E hwm \in {Roomy, FewMessages} : InitWith(Subs, hwm, PRUNE_FIRST, {"b"})

NextNonBlocking ==
    \/ Publisher("p1")
    \/ \E c \in {"c1", "c3"} : Receive(c)
    \/ Tick

SpecNonBlocking ==
    /\ InitNonBlocking
    /\ [][NextNonBlocking]_vars
    /\ WF_vars(Poll("c3")) /\ WF_vars(Exit("c3")) /\ WF_vars(PutRuns("p1"))

\* SpecTop: subscriber "a" alone, in a loop of receive_to_top, on a queue
\* that holds n messages, for every n up to MaxStored.  The n messages were
\* put at time 0 with the payloads of msgs_put and nobody has read them; their
\* ids are -n .. -1 in the order they were put.
StoredMsgs(msgs_put, subscriber_ids) ==
    [i \in 1..Len(msgs_put) |->
        [id |-> i - Len(msgs_put) - 1, msg |-> msgs_put[i],
         subscriber_ids |-> subscriber_ids, by |-> "p1", n |-> 1]]

InitInboxes(msgs_put, subscriber_ids, hwm, strategy) ==
    /\ data_db = [k \in (-Len(msgs_put))..(-1) |-> msgs_put[k + Len(msgs_put) + 1]]
    /\ meta_db = [k \in (-Len(msgs_put))..(-1) |-> 0]
    /\ pending_db = [k \in (-Len(msgs_put))..(-1) |-> Cardinality(subscriber_ids)]
    /\ dbs = Reserved
    /\ queue_db = [message_timeout |-> int_to_bytes(hwm.message_timeout),
                   max_messages |-> int_to_bytes(hwm.max_messages),
                   hwm_db_size |-> int_to_bytes(hwm.hwm_lmdb_size),
                   strategy |-> str_to_bytes(strategy)]
    /\ subscriber_db = subscriber_ids
    /\ sub_dbs = [s \in subscriber_ids |-> (-Len(msgs_put))..(-1)]
    /\ now = 0
    /\ used = {}
    /\ queue = [p \in Handles |->
                   [hwm |-> hwm, strategy |-> strategy,
                    subscriber_ids |-> subscriber_ids]]
    /\ ppc = [p \in Handles |-> "idle"]
    /\ msgs = [p \in Handles |-> <<>>]
    /\ msgs_to_delete = [p \in Handles |-> {}]
    /\ msgs_to_delete_timeout = [p \in Handles |-> {}]
    /\ messages_to_delete = [p \in Handles |-> {}]
    /\ cpc = [c \in Cons |-> "idle"]
    /\ msg_id = [c \in Cons |-> NoId]
    /\ msg = [c \in Cons |-> None]
    /\ msg_to_pop_num = [c \in Cons |-> 0]
    /\ ctl_subscriber_ids = subscriber_ids
    /\ ctl_calls = 0
    /\ ctl_args = NoArgs
    /\ watched = {}
    /\ left = [s \in Subs |-> {}]
    /\ acked = [s \in Subs |-> {}]
    /\ sent = StoredMsgs(msgs_put, subscriber_ids)
    /\ limit_reached = FALSE

InitTop ==
    \E n \in 0..MaxStored : \E msgs_put \in [1..n -> Payloads] :
        \E subscriber_ids \in {{"a"}, Subs} :
            InitInboxes(msgs_put, subscriber_ids, Holding(MaxStored + 1), PRUNE_FIRST)

receive_to_top(c) ==
    \/ TopStat(c)
    \/ TopPop(c)
    \/ cpc[c] = "poll" /\ Poll(c)
    \/ Exit(c)
    \/ ExitRaising(c)

NextTop == receive_to_top("c1")

SpecTop == InitTop /\ [][NextTop]_vars

\* SpecSnapshot: one publisher and the Control on a queue that was
\* initialised with any subset of the subscribers; the Control adds and
\* removes subscribers and the publisher's queue is opened anew.
InitSnapshot ==
    \E subscriber_ids \in SUBSET Subs : \E hwm \in {Roomy, FewMessages} :
        InitWith(subscriber_ids, hwm, PRUNE_FIRST, {})

NextSnapshot ==
    \/ Publisher("p1")
    \/ Control
    \/ Tick

SpecSnapshot == InitSnapshot /\ [][NextSnapshot]_vars

\* A directory that was never initialised: no sub-DB exists and no queue was
\* opened.  The Control is initialised for the first time, configured
\* directly, and a Publisher is opened, in any order.
Wide == [message_timeout |-> 258, max_messages |-> 66049,
         hwm_lmdb_size |-> 2147483647]

InitArgs == HwmChoices \cup {Wide}

InitNew ==
    /\ dbs = {}
    /\ data_db = <<>>
    /\ meta_db = <<>>
    /\ pending_db = <<>>
    /\ queue_db = <<>>
    /\ subscriber_db = {}
    /\ sub_dbs = <<>>
    /\ now = 0
    /\ used = {}
    /\ queue = [p \in Handles |-> Unopened]
    /\ ppc = [p \in Handles |-> "idle"]
    /\ msgs = [p \in Handles |-> <<>>]
    /\ msgs_to_delete = [p \in Handles |-> {}]
    /\ msgs_to_delete_timeout = [p \in Handles |-> {}]
    /\ messages_to_delete = [p \in Handles |-> {}]
    /\ cpc = [c \in Cons |-> "idle"]
    /\ msg_id = [c \in Cons |-> NoId]
    /\ msg = [c \in Cons |-> None]
    /\ msg_to_pop_num = [c \in Cons |-> 0]
    /\ ctl_subscriber_ids = {}
    /\ ctl_calls = 0
    /\ ctl_args = NoArgs
    /\ watched = {}
    /\ left = [s \in Subs |-> {}]
    /\ acked = [s \in Subs |-> {}]
    /\ sent = <<>>
    /\ limit_reached = FALSE

NextNew ==
    \/ \E subscriber_ids \in SUBSET Subs : \E hwm \in InitArgs :
          \E strategy \in {PRUNE_FIRST, PRUNE_LAST} :
              Control_init(subscriber_ids, hwm, strategy)
    \/ InitializeSetHwm
    \/ InitializeSetStrategy
    \/ InitializeAddSub
    \/ ControlQueueInit
    \/ ControlRetrieve
    \/ init("p1")
    \/ OpenRetrieve("p1")
    \/ ppc[Ctl] = "idle" /\ \E hwm \in InitArgs : set_hwm(hwm)
    \/ ppc[Ctl] = "idle" /\ \E strategy \in {PRUNE_FIRST, PRUNE_LAST} :
                                set_strategy(strategy)

SpecNew == InitNew /\ [][NextNew]_vars

\* Subscriber ids written as their characters, one of them with a space.  A
\* directory is initialised with any of them, and subscribers are added to
\* it.
Names == {<<"a">>, <<"a", " ", "b">>}

NextNames ==
    \/ \E subscriber_ids \in SUBSET Names : \E hwm \in {Roomy, Wide} :
          \E strategy \in {PRUNE_FIRST, PRUNE_LAST} :
              Control_init(subscriber_ids, hwm, strategy)
    \/ InitializeSetHwm
    \/ InitializeSetStrategy
    \/ InitializeAddSub
    \/ ControlQueueInit
    \/ ControlRetrieve
    \/ ppc[Ctl] = "idle" /\ \E sub \in Names : _add_sub(sub)

SpecNames == InitNew /\ [][NextNames]_vars

\* A publisher, two subscribers and the clock bring the queue into some state;
\* from then on only the Control acts, and it calls prune_dangling_messages
\* again and again.
InitPrune ==
    \E hwm \in {Roomy, ShortLived} : InitWith(Subs, hwm, PRUNE_FIRST, {})

NextPrune ==
    \/ ctl_calls = 0 /\ ppc[Ctl] = "idle" /\ Publisher("p1")
    \/ ctl_calls = 0 /\ ppc[Ctl] = "idle" /\ (\E c \in {"c1", "c3"} : Receive(c))
    \/ ctl_calls = 0 /\ ppc[Ctl] = "idle" /\ Tick
    \/ prune_dangling_messages
    \/ PruneReadMeta(Ctl)
    \/ PruneWrite(Ctl)

SpecPrune == InitPrune /\ [][NextPrune]_vars

\* An initialised queue that publishers fill while a Control is opened on it
\* again, with any arguments.
InitReopen ==
    \E subscriber_ids \in SUBSET Subs : \E hwm \in {Roomy, FewMessages} :
        InitWith(subscriber_ids, hwm, PRUNE_LAST, {})

NextReopen ==
    \/ Publisher("p1")
    \/ \E subscriber_ids \in SUBSET Subs : \E hwm \in InitArgs :
          \E strategy \in {PRUNE_FIRST, PRUNE_LAST} :
              Control_init(subscriber_ids, hwm, strategy)
    \/ ControlQueueInit

SpecReopen == InitReopen /\ [][NextReopen]_vars

\* ------------------------------------------------------------------ claims

\* The subscriber's handle is in its block with a message of this id.
Yielded(sub, id) ==
    \E c \in Cons : /\ Identifier(c) = sub
                    /\ cpc[c] = "in_block"
                    /\ msg_id[c] = id
                    /\ msg[c] # None

\* The step in which receive / receive_to_top of handle c yields a message.
YieldStep(c) == cpc[c] # "in_block" /\ cpc'[c] = "in_block" /\ msg'[c] # None

\* The step in which handle c leaves its block, in either way.
LeaveStep(c) == cpc[c] = "in_block" /\ cpc'[c] = "idle"

\* The store after a committed pop of id from sub's sub-DB.
PopEffect(sub, id) ==
    /\ sub_dbs' = [sub_dbs EXCEPT ![sub] = @ \ {id}]
    /\ pending_db' = [pending_db EXCEPT ![id] = @ - 1]
    /\ UNCHANGED <<data_db, meta_db, dbs, queue_db, subscriber_db>>

UnackedLeave(c) == LeaveStep(c) /\ msg[c] # None /\ UNCHANGED store

C3_PendingCountsInboxes ==
    \A id \in DOMAIN pending_db :
        pending_db[id] = Cardinality({s \in DOMAIN sub_dbs : id \in sub_dbs[s]})

\* C4 as claimed: while no retention limit is reached and nothing is popped,
\* count_msgs is the number of messages put, and every message put is in
\* data_db with its payload, in meta_db, in pending_db with the number of
\* cached subscribers and in the sub-DB of each of them.
C4_FanOutOf(i) ==
    /\ sent[i].id \in DOMAIN data_db
    /\ data_db[sent[i].id] = sent[i].msg
    /\ sent[i].id \in DOMAIN meta_db
    /\ sent[i].id \in DOMAIN pending_db
    /\ pending_db[sent[i].id] = Cardinality(sent[i].subscriber_ids)
    /\ \A s \in sent[i].subscriber_ids : sent[i].id \in sub_dbs[s]

C4_FanOut ==
    ~limit_reached =>
        /\ count_msgs = Len(sent)
        /\ \A i \in 1..Len(sent) : C4_FanOutOf(i)

\* C4, amended: the same for queues whose cached subscriber set is not empty.
C4_FanOutToSubscribers ==
    (~limit_reached /\ \A p \in Pubs : queue[p].subscriber_ids # {}) =>
        /\ count_msgs = Len(sent)
        /\ \A i \in 1..Len(sent) : C4_FanOutOf(i)

\* Two subscribers, MaxId messages put with different payloads, no limit
\* reached.
C4_Witness ==
    /\ ~limit_reached
    /\ subscriber_db = Subs
    /\ Len(sent) = MaxId
    /\ sent[1].msg # sent[2].msg

\* C5: a pop on a non-empty sub-DB removes exactly its head (the id given or
\* the first key) and decreases that id's pending count by exactly 1; nothing
\* else of the store changes.  The pops are the ones of receive_to_top's loop,
\* pop(s), and of a block left without an exception whose id is still the
\* head, pop(s, id).
C5_PopConservation ==
    [][\A c \in Cons :
          (/\ Identifier(c) \in DOMAIN sub_dbs
           /\ sub_dbs[Identifier(c)] # {}
           /\ \/ TopPop(c)
              \/ Exit(c) /\ msg_id[c] = First(sub_dbs[Identifier(c)]))
          => PopEffect(Identifier(c), First(sub_dbs[Identifier(c)]))]_vars

C7_TimeoutPopsNothing ==
    [][\A c \in Cons :
          /\ (LeaveStep(c) /\ msg[c] = None) => UNCHANGED store
          /\ (/\ cpc[c] # "in_block" /\ cpc'[c] = "in_block"
              /\ sub_dbs[Identifier(c)] # {}
              /\ First(sub_dbs[Identifier(c)]) \in DOMAIN data_db)
             => /\ msg_id'[c] = First(sub_dbs[Identifier(c)])
                /\ msg'[c] = data_db[First(sub_dbs[Identifier(c)])]]_vars

\* Subscriber "b" is in a block that yielded None, and a message put since
\* is at the head of its sub-DB.
C7_Witness ==
    /\ cpc["c3"] = "in_block"
    /\ msg["c3"] = None
    /\ msg_id["c3"] = NoId
    /\ sub_dbs["b"] # {}
    /\ First(sub_dbs["b"]) \in DOMAIN data_db

\* All publishers have returned from their calls.
PublishersIdle == \A p \in Pubs : ppc[p] = "idle"

\* The number of entries of data_db, meta_db, pending_db and of every
\* subscriber's sub-DB is n, and so is the number of distinct ids put.
EntriesEverywhere(n) ==
    /\ Cardinality(DOMAIN data_db) = n
    /\ Cardinality(DOMAIN meta_db) = n
    /\ Cardinality(DOMAIN pending_db) = n
    /\ \A s \in subscriber_db : Cardinality(sub_dbs[s]) = n
    /\ Cardinality({sent[i].id : i \in 1..Len(sent)}) = n

\* C8 as claimed: when all publishers have returned and no retention limit
\* was reached, every database holds as many entries as messages were put.
C8_NothingLost ==
    (PublishersIdle /\ ~limit_reached) => EntriesEverywhere(Len(sent))

\* C8, amended: the same for a queue with at least one subscriber.
C8_NothingLostWithSubscribers ==
    (PublishersIdle /\ ~limit_reached /\ subscriber_db # {})
        => EntriesEverywhere(Len(sent))

\* Both publishers have put one message each and have returned.
C8_Witness ==
    /\ PublishersIdle
    /\ ~limit_reached
    /\ subscriber_db = Subs
    /\ Len(sent) = 2
    /\ sent[1].by # sent[2].by

\* C9: ids become visible only in the commit of a put / put_many_flush_once,
\* all ids of the call in the same step, and each of them at once in data_db,
\* meta_db, pending_db and the sub-DB of every cached subscriber, having been
\* in none of them before.
C9_AtomicVisibility ==
    [][LET new == ((DOMAIN data_db') \cup (DOMAIN meta_db') \cup (DOMAIN pending_db')
                      \cup UNION {sub_dbs'[s] : s \in DOMAIN sub_dbs'})
                  \ ((DOMAIN data_db) \cup (DOMAIN meta_db) \cup (DOMAIN pending_db)
                      \cup UNION {sub_dbs[s] : s \in DOMAIN sub_dbs})
       IN  new # {} =>
             \E p \in Pubs :
                /\ ppc[p] = "put_write" /\ ppc'[p] = "idle"
                /\ Cardinality(new) = Len(msgs[p])
                /\ \A id \in new :
                      /\ id \in DOMAIN data_db'
                      /\ id \in DOMAIN meta_db'
                      /\ id \in DOMAIN pending_db'
                      /\ \A s \in queue[p].subscriber_ids : id \in sub_dbs'[s]]_vars

\* One put_many_flush_once call has committed MaxBatch messages to two
\* subscribers.
C9_Witness ==
    /\ Len(sent) = MaxBatch
    /\ sent[1].n = MaxBatch
    /\ sent[1].subscriber_ids = Subs
    /\ \A i \in 1..Len(sent) : sent[i].id \in sub_dbs["a"] \cap sub_dbs["b"]

\* C10: data_db, meta_db and pending_db have the same keys.
C10_SameKeys ==
    /\ DOMAIN data_db = DOMAIN meta_db
    /\ DOMAIN meta_db = DOMAIN pending_db

\* Messages are stored after a Control call and after one half of the
\* messages was pruned.
C10_Witness ==
    /\ limit_reached
    /\ ctl_calls > 0
    /\ DOMAIN data_db # {}
    /\ Len(sent) = MaxId

\* C11: no value of pending_db is negative, in any committed state.
C11_PendingNotNegative == \A id \in DOMAIN pending_db : pending_db[id] >= 0

\* A message with pending count 0 is still in subscriber "b"'s sub-DB, where
\* a pop, _remove_sub or _prune_all_messages_for would take the count below
\* zero, and the Control has made its calls.
C11_Witness ==
    /\ ctl_calls = MaxCtl
    /\ "b" \in DOMAIN sub_dbs
    /\ \E id \in sub_dbs["b"] : id \in DOMAIN pending_db /\ pending_db[id] = 0

\* The step takes id out of data_db, meta_db, pending_db or a sub-DB.
Removed(id) ==
    \/ id \in DOMAIN data_db /\ id \notin DOMAIN data_db'
    \/ id \in DOMAIN meta_db /\ id \notin DOMAIN meta_db'
    \/ id \in DOMAIN pending_db /\ id \notin DOMAIN pending_db'
    \/ \E s \in DOMAIN sub_dbs :
          id \in sub_dbs[s] /\ (s \notin DOMAIN sub_dbs' \/ id \notin sub_dbs'[s])

\* The step is one of publisher p's put / put_many_flush_once, cleanup
\* included.
PublisherStep(p) == ppc'[p] # ppc[p]

\* The message is live for the handle p: somebody has still to read it and it
\* is not older than the handle's message_timeout.
Live(p, id) ==
    /\ id \in DOMAIN pending_db
    /\ pending_db[id] > 0
    /\ id \in DOMAIN meta_db
    /\ now - meta_db[id] <= queue[p].hwm.message_timeout

\* C12: a step of put / put_many_flush_once / cleanup takes a live message out
\* of a database only in the write transaction of prune_half_of_messages,
\* which this cleanup reaches only after it found count_msgs() >=
\* max_messages or the data size >= hwm_lmdb_size.
C12_Retention ==
    [][\A p \in Pubs : \A id \in Ids :
          (PublisherStep(p) /\ Live(p, id) /\ Removed(id))
          => /\ ppc[p] \in {"half_write_1", "half_write_2"}
             /\ limit_reached]_vars

\* A cleanup is about to commit its prune of dangling messages: one message
\* is dangling (read by both subscribers) and one is live, and no limit was
\* reached.
C12_Witness ==
    /\ ppc["p1"] = "prune_write"
    /\ ~limit_reached
    /\ msgs_to_delete["p1"] # {}
    /\ \E id \in Ids : Live("p1", id) /\ id \in sub_dbs["a"] \cup sub_dbs["b"]

\* A pop of handle c commits: of a block left without an exception, of
\* receive_to_top's loop, or a direct pop.
PopStep(c) == (Exit(c) \/ TopPop(c) \/ pop(c)) /\ sub_dbs' # sub_dbs

\* No sub-DB holds id after the step.
InNoInbox(id) == \A s \in DOMAIN sub_dbs' : id \notin sub_dbs'[s]

\* The prune of dangling messages of handle p is between its read of
\* pending_db and its write transaction.
Pruning(p) == ppc[p] \in {"prune_read_meta", "prune_write"}

\* C13: the pop by which the last subscriber takes a message leaves its
\* pending count at 0 and the message in data_db and meta_db; a cleanup
\* collects every id whose count is 0 when it starts, keeps the collection
\* until its write transaction, and when that commits none of the collected
\* ids is in data_db, meta_db or pending_db, while subscriber_db and queue_db
\* are as before.
C13_ZeroPendingCleanup ==
    [][/\ \A c \in Cons : \A id \in Ids :
             (PopStep(c) /\ id \in sub_dbs[Identifier(c)] /\ InNoInbox(id))
             => /\ pending_db'[id] = 0
                /\ id \in DOMAIN data_db' /\ data_db'[id] = data_db[id]
                /\ id \in DOMAIN meta_db' /\ meta_db'[id] = meta_db[id]
       /\ \A p \in Pubs :
             /\ (ppc[p] = "idle" /\ Pruning(p)')
                => msgs_to_delete'[p] = {k \in DOMAIN pending_db : pending_db[k] = 0}
             /\ (Pruning(p) /\ Pruning(p)')
                => msgs_to_delete'[p] = msgs_to_delete[p]
             /\ (ppc[p] = "prune_write" /\ ppc'[p] = "count_msgs")
                => /\ \A id \in msgs_to_delete[p] :
                         /\ id \notin DOMAIN data_db'
                         /\ id \notin DOMAIN meta_db'
                         /\ id \notin DOMAIN pending_db'
                   /\ UNCHANGED <<subscriber_db, dbs, queue_db>>]_vars

\* Both subscribers popped the first message put and the prune of dangling
\* messages of the next put has committed: the message is gone, no retention
\* limit was reached, the second message is still stored.
C13_Witness ==
    /\ ppc["p1"] = "count_msgs"
    /\ ~limit_reached
    /\ Len(sent) = 1
    /\ sent[1].id \notin DOMAIN data_db
    /\ subscriber_db = Subs
    /\ retrieve_queue_data.hwm.max_messages > 1

\* What the prune of dangling messages of handle p does with timed-out
\* messages: its read of meta_db collects every id whose timestamp is more
\* than the handle's message_timeout before the clock, the collection is kept
\* until the write transaction, and when that commits none of the collected
\* ids is in data_db, meta_db, pending_db or the sub-DB of a subscriber of the
\* handle, consumed or not.
TimeoutCleanup(p) ==
    /\ (ppc[p] = "prune_read_meta" /\ ppc'[p] = "prune_write")
       => msgs_to_delete_timeout'[p] =
              {k \in DOMAIN meta_db : now - meta_db[k] > queue[p].hwm.message_timeout}
    /\ (ppc[p] = "prune_write" /\ ppc'[p] = "prune_write")
       => msgs_to_delete_timeout'[p] = msgs_to_delete_timeout[p]
    /\ (ppc[p] = "prune_write" /\ ppc'[p] = "count_msgs")
       => \A id \in msgs_to_delete_timeout[p] :
             /\ id \notin DOMAIN data_db'
             /\ id \notin DOMAIN meta_db'
             /\ id \notin DOMAIN pending_db'
             /\ \A s \in queue[p].subscriber_ids : id \notin sub_dbs'[s]

C15_QueueSizeBound ==
    (/\ PublishersIdle
     /\ \A i \in 1..Len(sent) : sent[i].n = 1)
    => count_msgs <= retrieve_queue_data.hwm.max_messages

\* The write transaction of the first put of a run of SpecHalf commits: the
\* put was called with the Len(sent) stored messages, none of them dangling,
\* and with a data size below hwm_lmdb_size.
FirstPutReturns(p) ==
    /\ ppc[p] = "put_write"
    /\ ppc'[p] = "idle"
    /\ used = {}
    /\ Len(msgs[p]) = 1
    /\ Len(sent) < queue[p].hwm.hwm_lmdb_size

\* C16: a put called with count_msgs() = N >= max_messages removes exactly
\* floor(N/2)+1 messages before it writes the new one and returns with
\* count_msgs() = N - floor(N/2); called with N < max_messages it removes
\* nothing and returns with N + 1.
C16_HighWaterCount ==
    [][\A p \in Pubs :
          FirstPutReturns(p) =>
              IF Len(sent) >= queue[p].hwm.max_messages
              THEN /\ count_msgs = Len(sent) - ((Len(sent) \div 2) + 1)
                   /\ count_msgs' = Len(sent) - (Len(sent) \div 2)
              ELSE /\ count_msgs = Len(sent)
                   /\ count_msgs' = Len(sent) + 1]_vars

\* A put on a queue full with MaxStored messages has returned, and so has a
\* second put.
C16_Witness ==
    /\ ppc["p1"] = "idle"
    /\ queue["p1"].hwm = Holding(MaxStored)
    /\ Len(sent) = MaxStored + 2
    /\ sent[1].n = MaxStored

\* What prune_half_of_messages of handle p does: with N >= 1 entries in
\* meta_db its read transaction collects exactly floor(N/2)+1 keys, the
\* smallest ones under PRUNE_FIRST and the largest ones under PRUNE_LAST, and
\* its write transaction takes exactly the collected keys out of pending_db,
\* meta_db, data_db and the sub-DB of every cached subscriber.
HalfDirection(p) ==
    /\ (ppc[p] \in {"half_read_1", "half_read_2"} /\ ppc'[p] # ppc[p]
           /\ DOMAIN meta_db # {})
       => /\ messages_to_delete'[p] \subseteq DOMAIN meta_db
          /\ Cardinality(messages_to_delete'[p]) = (count_msgs \div 2) + 1
          /\ \A a \in messages_to_delete'[p] :
                \A b \in (DOMAIN meta_db) \ messages_to_delete'[p] :
                   IF queue[p].strategy = PRUNE_FIRST THEN a < b ELSE a > b
    /\ (ppc[p] \in {"half_write_1", "half_write_2"}
           /\ ppc'[p] \in {"check_size", "put_write"})
       => /\ DOMAIN pending_db' = (DOMAIN pending_db) \ messages_to_delete[p]
          /\ DOMAIN meta_db' = (DOMAIN meta_db) \ messages_to_delete[p]
          /\ DOMAIN data_db' = (DOMAIN data_db) \ messages_to_delete[p]
          /\ \A s \in queue[p].subscriber_ids :
                sub_dbs'[s] = sub_dbs[s] \ messages_to_delete[p]

\* The put that returns was called on a queue that was full.
Overflows(p) == FirstPutReturns(p) /\ Len(sent) >= queue[p].hwm.max_messages

\* The message front returns to sub after the step.
FrontAfter(sub) == First(sub_dbs'[sub])

\* The oldest of the stored messages that the put left in the queue when it
\* removed the first floor(N/2)+1 of N, and the message of the put itself
\* when it left none.
OldestLeft(p) ==
    IF (Len(sent) \div 2) + 2 <= Len(sent)
    THEN sent[(Len(sent) \div 2) + 2].id
    ELSE CHOOSE id \in used' : TRUE

\* C17 as claimed: prune_half_of_messages removes the floor(N/2)+1 smallest
\* ids under PRUNE_FIRST and the floor(N/2)+1 largest under PRUNE_LAST; after
\* the put that overflows a full queue, front returns the oldest surviving
\* message under PRUNE_FIRST and the very first message under PRUNE_LAST.
C17_StrategyDirection ==
    [][\A p \in Pubs :
          /\ HalfDirection(p)
          /\ Overflows(p) =>
                \A s \in queue[p].subscriber_ids :
                   IF queue[p].strategy = PRUNE_FIRST
                   THEN FrontAfter(s) = OldestLeft(p)
                   ELSE FrontAfter(s) = sent[1].id]_vars

\* C17, amended: the same, where under PRUNE_LAST front returns the very
\* first message when the queue held N >= 3 messages, and the message of the
\* put itself when it held 1 or 2, all of which were removed.
C17_StrategyDirectionFromThree ==
    [][\A p \in Pubs :
          /\ HalfDirection(p)
          /\ Overflows(p) =>
                \A s \in queue[p].subscriber_ids :
                   IF queue[p].strategy = PRUNE_FIRST
                   THEN FrontAfter(s) = OldestLeft(p)
                   ELSE IF Len(sent) >= 3
                        THEN FrontAfter(s) = sent[1].id
                        ELSE FrontAfter(s) \in used']_vars

\* A put has overflowed a queue full with MaxStored messages under
\* PRUNE_LAST: the first message is still at the front of both sub-DBs and
\* the last stored message is gone.
C17_Witness ==
    /\ ppc["p1"] = "idle"
    /\ queue["p1"].strategy = PRUNE_LAST
    /\ queue["p1"].hwm = Holding(MaxStored)
    /\ Len(sent) = MaxStored + 1
    /\ subscriber_db = Subs
    /\ FrontKey("a") = sent[1].id
    /\ FrontKey("b") = sent[1].id
    /\ sent[MaxStored].id \notin DOMAIN meta_db

\* C18: with max_messages = 1 and a publisher that has only put single
\* messages, under either strategy, when a put returns count_msgs() is 1 and
\* front returns the message of that put to every subscriber.
C18_OnlyLatest ==
    [][\A p \in Pubs :
          (/\ ppc[p] = "put_write" /\ ppc'[p] = "idle"
           /\ used' # used
           /\ Len(msgs[p]) = 1
           /\ queue[p].hwm.max_messages = 1
           /\ \A i \in 1..Len(sent) : sent[i].n = 1)
          => /\ count_msgs' = 1
             /\ \A s \in queue[p].subscriber_ids :
                   /\ sub_dbs'[s] # {}
                   /\ First(sub_dbs'[s]) \in used' \ used
                   /\ data_db'[First(sub_dbs'[s])] = msgs[p][1]]_vars

\* With max_messages = 1 and PRUNE_LAST the second put has returned: one
\* message is stored and it is the second one, at the front of both sub-DBs.
C18_Witness ==
    /\ ppc["p1"] = "idle"
    /\ queue["p1"].hwm = FewMessages
    /\ queue["p1"].strategy = PRUNE_LAST
    /\ Len(sent) = 2
    /\ sent[1].n = 1
    /\ sent[2].n = 1
    /\ count_msgs = 1
    /\ FrontKey("a") = sent[2].id
    /\ FrontKey("b") = sent[2].id

\* C19: a pop on an existing, empty sub-DB, without msg_id (a pop of
\* receive_to_top's loop) or with msg_id (the pop of a block that is left),
\* raises the "No message to pop" error and changes nothing in the store.
C19_PopWhenEmpty ==
    [][\A c \in Cons :
          (Identifier(c) \in DOMAIN sub_dbs /\ sub_dbs[Identifier(c)] = {})
          => /\ TopPop(c)
                => /\ PopRaises(Identifier(c), NoId) = NoMessageToPop
                   /\ UNCHANGED store
             /\ (Exit(c) /\ msg_id[c] # NoId)
                => /\ PopRaises(Identifier(c), msg_id[c]) = NoMessageToPop
                   /\ UNCHANGED store]_vars

\* Subscriber "a" is in a block with a message and subscriber "b" in the
\* loop of receive_to_top, and the sub-DBs of both have been emptied since.
C19_Witness ==
    /\ cpc["c1"] = "in_block"
    /\ msg_id["c1"] # NoId
    /\ cpc["c3"] = "to_top"
    /\ sub_dbs["a"] = {}
    /\ sub_dbs["b"] = {}

\* C20: the ids of the messages of one put_many_flush_once call are in the
\* databases in the order in which the messages were passed to the call, so
\* that front / receive return them to every subscriber in that order.
C20_BatchFifo ==
    [][\A i, j \in (Len(sent) + 1)..Len(sent') :
          i < j => sent'[i].id < sent'[j].id]_vars

\* Subscriber "a" is inside its block with the message id, yielded and not
\* yet acknowledged.
AHolds(id) == cpc["c1"] = "in_block" /\ msg["c1"] # None /\ msg_id["c1"] = id

AInBlock == \E id \in Ids : AHolds(id)

\* C21: from a state in which subscriber "a" is inside its block with a
\* message, whether or not "a" ever leaves the block, the receive of
\* subscriber "b" yields (the same message when it is at the head of b's
\* sub-DB and nothing is put or pruned meanwhile), the block of "b" is left,
\* and a put of the publisher that is under way returns.
C21_NonBlocking ==
    /\ (AInBlock /\ cpc["c3"] = "idle") ~> (cpc["c3"] = "in_block")
    /\ (AInBlock /\ cpc["c3"] = "in_block") ~> (cpc["c3"] = "idle")
    /\ (AInBlock /\ ppc["p1"] # "idle") ~> (ppc["p1"] = "idle")
    /\ [][\A id \in Ids :
            (AHolds(id) /\ Poll("c3") /\ FrontKey("b") = id /\ id \in DOMAIN data_db)
            => (msg_id'["c3"] = id /\ msg'["c3"] = data_db[id] /\ AHolds(id)')]_vars

\* Subscriber "a" is still inside its block with the first message while
\* subscriber "b" has received and acknowledged the same message and a second
\* put has returned.
C21_Witness ==
    /\ Len(sent) = 2
    /\ ppc["p1"] = "idle"
    /\ AHolds(sent[1].id)
    /\ sent[1].id \in acked["b"]
    /\ pending_db[sent[1].id] = 1
    /\ sent[1].id \in sub_dbs["a"]

\* The ids of the messages the queue of SpecTop was started with.
StoredIds == {sent[i].id : i \in 1..Len(sent)}

\* What receive_to_top does on subscriber "a"'s sub-DB when nobody else is
\* active: called with n >= 1 messages in it, it yields the payload of the
\* largest-keyed one, which is then the only one left in the sub-DB; at every
\* moment the pending count of a message is one less than it was if a's
\* sub-DB has lost the message and as it was otherwise, and the sub-DB of
\* every other subscriber holds all n messages.
TopAccounting ==
    /\ (cpc["c1"] = "idle" /\ TopStat("c1") /\ sub_dbs["a"] # {})
       => msg_to_pop_num'["c1"] = Cardinality(sub_dbs["a"]) - 1
    /\ (cpc["c1"] = "poll" /\ Poll("c1") /\ sub_dbs["a"] # {})
       => /\ sub_dbs["a"] = {Last(StoredIds)}
          /\ msg_id'["c1"] = Last(StoredIds)
          /\ msg'["c1"] = sent[Len(sent)].msg
    /\ \A id \in StoredIds :
          /\ pending_db'[id] = Cardinality(subscriber_db)
                                   - (IF id \in sub_dbs'["a"] THEN 0 ELSE 1)
          /\ \A s \in subscriber_db \ {"a"} : id \in sub_dbs'[s]

PutCommits(p) == ppc[p] = "put_write" /\ ppc'[p] = "idle" /\ used' # used

\* C23: the subscriber set of a Queue is the content of subscriber_db when
\* the Queue was opened and changes only when it is opened anew, not by
\* _add_sub; a put places its message in the sub-DB of exactly the
\* subscribers of that set, with the size of the set as pending count.  So a
\* subscriber added after the open gets none of the Queue's messages, and a
\* subscriber registered at the open gets every one.
C23_SubscriberSnapshot ==
    [][\A p \in Pubs :
          /\ queue'[p] # queue[p]
             => /\ ppc[p] = "idle"
                /\ ctl_calls' = ctl_calls + 1
                /\ queue'[p].subscriber_ids = subscriber_db
                /\ UNCHANGED store
          /\ (\E s \in Subs : _add_sub(s)) => queue'[p] = queue[p]
          /\ PutCommits(p)
             => \A id \in used' \ used :
                   /\ pending_db'[id] = Cardinality(queue[p].subscriber_ids)
                   /\ \A s \in DOMAIN sub_dbs' :
                         id \in sub_dbs'[s] <=> s \in queue[p].subscriber_ids]_vars

\* The queue was initialised with subscriber "a"; the first message was put
\* by the Queue opened then, the second after _add_sub("b") and a new open:
\* b's sub-DB holds the second message only, the pending counts are 1 and 2.
C23_Witness ==
    /\ Len(sent) = 2
    /\ sent[1].subscriber_ids = {"a"}
    /\ sent[2].subscriber_ids = Subs
    /\ subscriber_db = Subs
    /\ sub_dbs["b"] = {sent[2].id}
    /\ sub_dbs["a"] = {sent[1].id, sent[2].id}
    /\ pending_db[sent[1].id] = 1
    /\ pending_db[sent[2].id] = 2

\* A write transaction of the put / put_many_flush_once of handle p (of its
\* cleanup or of the put itself) fails on the sub-DB of a cached subscriber
\* that does not exist, and the call raises.
PutFails(p) ==
    /\ ppc[p] \in {"prune_write", "half_write_1", "half_write_2", "put_write"}
    /\ ppc'[p] = "idle"
    /\ ~SubDbsExist(queue[p].subscriber_ids)

\* Every id that data_db, meta_db, pending_db or a sub-DB holds.
StoredAnywhere ==
    (DOMAIN data_db) \cup (DOMAIN meta_db) \cup (DOMAIN pending_db)
        \cup UNION {sub_dbs[s] : s \in DOMAIN sub_dbs}

\* Every pending count is the number of sub-DBs that hold the id.
PendingMatches ==
    \A id \in DOMAIN pending_db :
        pending_db[id] = Cardinality({s \in DOMAIN sub_dbs : id \in sub_dbs[s]})

\* C24: the step in which a put / put_many_flush_once fails commits nothing:
\* the store is as before, no id was given to the new message and no new id
\* is in data_db, meta_db, pending_db or a sub-DB; data_db, meta_db and
\* pending_db have the same keys, no pending count is negative, and the
\* pending counts match the sub-DBs if they did before.
C24_FailedPutCommitsNothing ==
    [][\A p \in Pubs :
          PutFails(p)
          => /\ UNCHANGED store
             /\ used' = used
             /\ sent' = sent
             /\ StoredAnywhere' \subseteq StoredAnywhere
             /\ DOMAIN data_db' = DOMAIN meta_db'
             /\ DOMAIN meta_db' = DOMAIN pending_db'
             /\ \A id \in DOMAIN pending_db' : pending_db'[id] >= 0
             /\ PendingMatches => PendingMatches']_vars

\* The publisher's cached set holds "b", whose sub-DB the Control has
\* removed while the put was between its cleanup and its write transaction;
\* a message put before is stored.
C24_Witness ==
    /\ ppc["p1"] = "put_write"
    /\ Len(msgs["p1"]) = 1
    /\ "b" \in queue["p1"].subscriber_ids
    /\ "b" \notin DOMAIN sub_dbs
    /\ Len(sent) = 1
    /\ sent[1].id \in DOMAIN pending_db

\* queue_db exists and holds the four reserved keys.
ConfigStored ==
    /\ QUEUE_DB \in dbs
    /\ {MESSAGE_TIMEOUT_KEY, MAX_MESSAGES_KEY, HWM_DB_SIZE_KEY, STRATEGY_KEY}
           \subseteq DOMAIN queue_db

\* C25: Control.is_initialized returns True iff queue_db exists and holds the
\* four reserved keys, and returns False, without failing, in every other
\* state of the store (read while no first-time initialisation is under
\* way), the one left by opening a Publisher on a directory that was never
\* initialised included; Control.init called in a state that is not
\* initialised starts the first-time initialisation with its arguments.
C25_IsInitialized ==
    /\ [](ppc[Ctl] = "idle"
            => is_initialized = IF ConfigStored THEN "True" ELSE "False")
    /\ [][\A subscriber_ids \in SUBSET Subs : \A hwm \in InitArgs :
            \A strategy \in {PRUNE_FIRST, PRUNE_LAST} :
                Control_init(subscriber_ids, hwm, strategy) /\ ~ConfigStored
                => /\ ppc'[Ctl] = "set_hwm"
                   /\ ctl_subscriber_ids' = subscriber_ids
                   /\ ctl_args' = [hwm |-> hwm, strategy |-> strategy,
                                   to_add |-> subscriber_ids]]_vars

\* The parts of C25 one by one: the reserved sub-DBs exist and queue_db is
\* empty (a Publisher was opened first); then is_initialized raises and
\* Control.init ends without writing anything.
C25_AfterPublisher ==
    (Reserved \subseteq dbs /\ queue_db = <<>>) => is_initialized = "False"

C25_InitAfterPublisher ==
    [][\A subscriber_ids \in SUBSET Subs : \A hwm \in InitArgs :
        \A strategy \in {PRUNE_FIRST, PRUNE_LAST} :
            Control_init(subscriber_ids, hwm, strategy)
                /\ Reserved \subseteq dbs /\ queue_db = <<>>
            => ppc'[Ctl] = "set_hwm"]_vars


\* C26: Control.init on a queue that is initialised only opens it again.  The
\* call writes nothing and goes on to open the queue, whatever its
\* arguments (the same step is a step of the call without subscribers and
\* with other limits); opening leaves every sub-DB, message and pending count as it
\* was, so count_msgs and every subscriber's front are the same, and the
\* Control then holds the configuration and the subscriber ids of the store.
C26_ReopenOnly ==
    [][/\ \A subscriber_ids \in SUBSET Subs : \A hwm \in InitArgs :
            \A strategy \in {PRUNE_FIRST, PRUNE_LAST} :
                Control_init(subscriber_ids, hwm, strategy)
                => /\ UNCHANGED <<store, queue, ctl_subscriber_ids>>
                   /\ ppc'[Ctl] = "reinitialize"
                   /\ Control_init({}, Wide, PRUNE_FIRST)
       /\ ControlQueueInit
            => /\ UNCHANGED store
               /\ count_msgs' = count_msgs
               /\ \A sub \in DOMAIN sub_dbs : FrontMsg(sub)' = FrontMsg(sub)
               /\ queue'[Ctl].hwm = retrieve_queue_data.hwm
               /\ queue'[Ctl].strategy = bytes_to_str(queue_db[STRATEGY_KEY])
               /\ queue'[Ctl].subscriber_ids = subscriber_db
               /\ ctl_subscriber_ids' = subscriber_db
               /\ ppc'[Ctl] = "idle"]_vars

\* A Control was opened again on a queue that holds messages in an inbox.
C26_Witness ==
    /\ ctl_calls > 0
    /\ ppc[Ctl] = "idle"
    /\ count_msgs > 1
    /\ \E sub \in DOMAIN sub_dbs : FrontMsg(sub) # None

\* The limits stored in queue_db, decoded.
StoredHwm(db) ==
    [message_timeout |-> bytes_to_int(db[MESSAGE_TIMEOUT_KEY]),
     max_messages |-> bytes_to_int(db[MAX_MESSAGES_KEY]),
     hwm_lmdb_size |-> bytes_to_int(db[HWM_DB_SIZE_KEY])]

\* A queue handle is opened: its _Queue.init returns.
Opens(p) ==
    /\ queue'[p] # queue[p] \/ ppc'[p] = "idle"
    /\ \/ p \in Pubs /\ (init(p) \/ OpenRetrieve(p))
       \/ p = Ctl /\ (ControlQueueInit \/ ControlRetrieve)
    /\ QueueInitRaises = NoError

\* C27: the configuration makes the round trip.  The limits and the strategy
\* that set_hwm and set_strategy write are the ones read back from queue_db;
\* a queue that is opened caches the stored limits, the stored strategy and
\* exactly the ids of subscriber_db; and the Control that initialises a
\* directory with limits, a strategy and subscriber ids ends with a queue
\* that caches exactly these.
C27_ConfigRoundTrip ==
    [][/\ \A hwm \in InitArgs :
            (set_hwm(hwm) \/ (InitializeSetHwm /\ ctl_args.hwm = hwm))
            => StoredHwm(queue_db') = hwm
       /\ \A strategy \in {PRUNE_FIRST, PRUNE_LAST} :
            (set_strategy(strategy)
                \/ (InitializeSetStrategy /\ ctl_args.strategy = strategy))
            => _parse_strategy(bytes_to_str(queue_db'[STRATEGY_KEY])) = strategy
       /\ \A p \in Handles :
            Opens(p)
            => /\ queue'[p].hwm = StoredHwm(queue_db)
               /\ queue'[p].strategy = bytes_to_str(queue_db[STRATEGY_KEY])
               /\ queue'[p].subscriber_ids = subscriber_db
       /\ (Opens(Ctl) /\ ppc[Ctl] \in {"initialize_open", "initialize_retrieve"})
            => /\ queue'[Ctl].hwm = ctl_args.hwm
               /\ queue'[Ctl].strategy = ctl_args.strategy
               /\ queue'[Ctl].subscriber_ids = ctl_subscriber_ids]_vars

\* The Control has initialised a directory with limits of several bytes and
\* two subscribers, and a Publisher was opened on it.
C27_Witness ==
    /\ ppc[Ctl] = "idle"
    /\ queue[Ctl] = [hwm |-> Wide, strategy |-> PRUNE_LAST, subscriber_ids |-> Subs]
    /\ queue["p1"] = queue[Ctl]

\* C28: set_hwm and set_strategy write queue_db and nothing else, no handle's
\* cached configuration included; a handle's cached configuration changes
\* only when the handle is opened; and every cleanup of a handle decides by
\* the timeout, the count limit, the size limit and the strategy the handle
\* has cached, whatever queue_db holds by then.
C28_EffectOnNextOpen ==
    [][/\ ((\E hwm \in HwmChoices : set_hwm(hwm))
             \/ (\E strategy \in {PRUNE_FIRST, PRUNE_LAST} : set_strategy(strategy)))
            => UNCHANGED <<dbs, data_db, meta_db, pending_db, subscriber_db,
                           sub_dbs, queue, pubvars, convars>>
       /\ \A p \in Handles :
            /\ queue'[p] # queue[p] => init(p)
            /\ PruneReadMeta(p)
                 => msgs_to_delete_timeout'[p] =
                        {k \in DOMAIN meta_db :
                            now - meta_db[k] > queue[p].hwm.message_timeout}
            /\ CountMsgs(p)
                 => (ppc'[p] = "half_read_1"
                        <=> count_msgs >= queue[p].hwm.max_messages)
            /\ CheckSize(p)
                 => (ppc'[p] = "half_read_2"
                        <=> check_current_lmdb_size >= queue[p].hwm.hwm_lmdb_size)
            /\ HalfRead(p)
                 => messages_to_delete'[p] = HalfToDelete(queue[p].strategy)]_vars

\* A publisher opened with the count limit 1 prunes at one stored message
\* although queue_db has held a larger limit since a set_hwm.
C28_Witness ==
    \E p \in Pubs :
        /\ ppc[p] = "half_read_1"
        /\ count_msgs < StoredHwm(queue_db).max_messages
        /\ count_msgs >= queue[p].hwm.max_messages

\* C29: in every state a subscriber's sub-DB exists if and only if its id is
\* a key of subscriber_db.
C29_SubDbIffRegistered == DOMAIN sub_dbs = subscriber_db

\* C30: Control.remove_sub(s) for a registered subscriber s drops s's sub-DB,
\* deletes s from subscriber_db and decreases by exactly 1 the pending count
\* of each message that was in s's inbox; data_db, meta_db, queue_db and the
\* inbox of every other subscriber are unchanged, so every other
\* subscriber's front is the same message.
C30_RemoveSub ==
    [][\A s \in Subs :
        (_remove_sub(s) /\ s \in subscriber_db)
        => /\ s \notin DOMAIN sub_dbs'
           /\ s \notin subscriber_db'
           /\ DOMAIN pending_db' = DOMAIN pending_db
           /\ \A k \in DOMAIN pending_db :
                 pending_db'[k] =
                     IF s \in DOMAIN sub_dbs /\ k \in sub_dbs[s]
                     THEN pending_db[k] - 1 ELSE pending_db[k]
           /\ UNCHANGED <<data_db, meta_db, queue_db>>
           /\ \A t \in (DOMAIN sub_dbs) \ {s} :
                 /\ t \in DOMAIN sub_dbs'
                 /\ sub_dbs'[t] = sub_dbs[t]
                 /\ FrontMsg(t)' = FrontMsg(t)]_vars

\* The id has neither a key in subscriber_db nor a sub-DB.
NotSubscriber(sub) == sub \notin subscriber_db /\ sub \notin DOMAIN sub_dbs

\* _remove_sub(sub) called now returns: its transaction does not abort.
RemoveSubReturns(sub) == CanDecrease(MsgOfSub(sub))

\* C31: remove_sub is idempotent.  For an id that is not a subscriber the
\* call returns and changes nothing in the store; a call that returns leaves
\* the id not a subscriber, so that a second call is of the first kind; a
\* call that raises changes nothing, and would raise again.
C31_RemoveSubIdempotent ==
    [][\A sub \in Subs :
        _remove_sub(sub)
        => /\ NotSubscriber(sub) => RemoveSubReturns(sub) /\ UNCHANGED store
           /\ RemoveSubReturns(sub) => NotSubscriber(sub)'
           /\ ~RemoveSubReturns(sub)
                => UNCHANGED store /\ ~RemoveSubReturns(sub)']_vars

\* A subscriber with messages in its inbox was removed, and remove_sub was
\* called a second time.
C31_Witness ==
    /\ ctl_calls = 2
    /\ NotSubscriber("a")
    /\ ctl_subscriber_ids = {"b"}
    /\ "b" \in DOMAIN sub_dbs /\ sub_dbs["b"] # {}
    /\ \E k \in sub_dbs["b"] : pending_db[k] = 1

\* C32: after clear_all_subscribers, from any state of the queue, the
\* environment holds exactly the five reserved sub-DBs and no subscriber's
\* sub-DB, and data_db, meta_db and pending_db are empty.
C32_ClearAll ==
    [][clear_all_subscribers
        => /\ dbs' = Reserved
           /\ DOMAIN sub_dbs' = {}
           /\ data_db' = <<>> /\ meta_db' = <<>> /\ pending_db' = <<>>]_vars

\* C32 for the subscribers the Control knows: after clear_all_subscribers
\* no sub-DB of an id of self.subscriber_ids exists, every other sub-DB is as
\* it was, the reserved sub-DBs exist and data_db, meta_db and pending_db are
\* empty.
C32_ClearAllKnown ==
    [][clear_all_subscribers
        => /\ dbs' = Reserved
           /\ DOMAIN sub_dbs' = (DOMAIN sub_dbs) \ ctl_subscriber_ids
           /\ \A sub \in DOMAIN sub_dbs' : sub_dbs'[sub] = sub_dbs[sub]
           /\ data_db' = <<>> /\ meta_db' = <<>> /\ pending_db' = <<>>]_vars

\* sub_id.find(' ') # -1.
HasSpace(sub_id) == \E i \in 1..Len(sub_id) : sub_id[i] = " "

\* C33: a subscriber id that contains a space is rejected.  Neither _add_sub
\* nor the _add_sub of a first-time Control.init creates a sub-DB or a key of
\* subscriber_db for it.
C33_SpaceRejected ==
    \A sub \in Names :
        HasSpace(sub) => sub \notin DOMAIN sub_dbs /\ sub \notin subscriber_db

\* The ids with pending count 0 and the ids older than the Control's
\* message_timeout.
Dangling ==
    {k \in DOMAIN pending_db : pending_db[k] = 0}
        \cup {k \in DOMAIN meta_db : now - meta_db[k] > queue[Ctl].hwm.message_timeout}

\* C34: soft pruning is idempotent.  When prune_dangling_messages runs again
\* right after a run, with no other operation in between and the clock
\* unchanged, its write transaction changes nothing in the store; and after
\* every run no id with pending count 0 or with an age above message_timeout
\* is left in pending_db, meta_db or data_db.
C34_SoftPruneIdempotent ==
    [][PruneWrite(Ctl)
        => /\ ctl_calls > 1 => UNCHANGED store
           /\ Dangling' = {}
           /\ Dangling \cap ((DOMAIN pending_db') \cup (DOMAIN meta_db')
                                \cup (DOMAIN data_db')) = {}]_vars

\* The second run in a row has ended; a message that every subscriber had
\* read was deleted, no limit was ever reached, and another message is left.
C34_Witness ==
    /\ ctl_calls = 2
    /\ ppc[Ctl] = "idle"
    /\ count_msgs > 0
    /\ ~limit_reached
    /\ \E i \in 1..Len(sent) : sent[i].id \notin DOMAIN data_db

\* The id the handle was given is no longer in its subscriber's inbox.
LostRace(c) ==
    /\ cpc[c] = "in_block"
    /\ msg_id[c] # NoId
    /\ Identifier(c) \in DOMAIN sub_dbs => msg_id[c] \notin sub_dbs[Identifier(c)]

\* C35: ack-by-id is safe against a lost race.  When a receive block is left
\* and the id it was given is no longer in the subscriber's inbox, the
\* pop(sub_id, msg_id) removes no inbox entry and decreases no pending
\* count: the store is unchanged, whether the call raises or not.
C35_AckLostRace ==
    [][\A c \in Cons : (LostRace(c) /\ Exit(c)) => UNCHANGED store]_vars

\* C36: in every committed state of the store every id of a subscriber's
\* sub-DB is a key of data_db, so that front never returns an id together
\* with a missing payload.
C36_InboxHasPayload ==
    \A sub \in DOMAIN sub_dbs : sub_dbs[sub] \subseteq DOMAIN data_db

\* C37: under weak fairness of the publisher's put and of every handle's
\* receive, every id that is in a subscriber's sub-DB eventually leaves it.
C37_NoHeadOfLineBlocking ==
    \A sub \in Subs : \A id \in Ids :
        (sub \in DOMAIN sub_dbs /\ id \in sub_dbs[sub])
            ~> ~(sub \in DOMAIN sub_dbs /\ id \in sub_dbs[sub])

\* The ids that put committed and pruning has removed from data_db, meta_db
\* and pending_db.
PrunedAway ==
    {k \in used : k \notin DOMAIN data_db \cup DOMAIN meta_db \cup DOMAIN pending_db}

\* C38: in every step the pending count of an id that stays in pending_db
\* does not increase and falls by at most 1, and an id that was removed from
\* data_db, meta_db and pending_db enters no sub-DB.
C38_MonotonicLifeCycle ==
    [][/\ \A k \in DOMAIN pending_db \cap DOMAIN pending_db' :
            /\ pending_db'[k] <= pending_db[k]
            /\ pending_db[k] - pending_db'[k] <= 1
       /\ \A k \in PrunedAway : \A s \in DOMAIN sub_dbs' :
            k \in sub_dbs'[s] => s \in DOMAIN sub_dbs /\ k \in sub_dbs[s]]_vars

\* One message was pruned away and the count of another, still stored, is
\* below the number of subscribers it was put for.
C38_Witness ==
    \E i, j \in 1..Len(sent) :
        /\ sent[i].id \in PrunedAway
        /\ sent[j].id \in DOMAIN pending_db
        /\ pending_db[sent[j].id] < Cardinality(sent[j].subscriber_ids)

\* C39: a queue opened while the Control calls set_hwm caches a consistent
\* snapshot.  Every committed state of queue_db holds the three limits of
\* one call, and a queue that is opened caches the limits, the strategy and
\* the content of subscriber_db of one and the same state.
C39_ConsistentSnapshot ==
    /\ [](StoredHwm(queue_db) \in HwmChoices)
    /\ [][\A p \in Pubs :
            queue'[p] # queue[p]
            => \E hwm \in HwmChoices :
                  /\ queue'[p].hwm = hwm
                  /\ StoredHwm(queue_db) = hwm
                  /\ queue'[p].strategy
                        = _parse_strategy(bytes_to_str(queue_db[STRATEGY_KEY]))
                  /\ queue'[p].subscriber_ids = subscriber_db]_vars

\* The publisher's queue was opened after a set_hwm with limits the queue
\* was not initialised with, and caches what the call wrote.
C39_Witness ==
    /\ ctl_calls = 2
    /\ queue["p1"].hwm = FewPages
    /\ StoredHwm(queue_db) = FewPages
    /\ queue["p1"].subscriber_ids = subscriber_db

\* The cleanup of the first put of a run of SpecHalf returns: it was called
\* with the Len(sent) stored messages, none of them dangling.
FirstCleanupReturns(p) ==
    /\ ppc[p] # "put_write"
    /\ ppc'[p] = "put_write"
    /\ used = {}

\* min(N, floor(N/2)+1)
HalfOf(n) == IF (n \div 2) + 1 < n THEN (n \div 2) + 1 ELSE n

\* C40: one cleanup pass runs prune_half_of_messages at most once.  With N
\* messages left after the dangling ones were pruned, the pass removes
\* exactly min(N, floor(N/2)+1) of them if N reaches the count limit or the
\* size limit or both, and none otherwise.
C40_HalfAtMostOnce ==
    [][\A p \in Pubs :
          FirstCleanupReturns(p) =>
              count_msgs' =
                  IF \/ Len(sent) >= queue[p].hwm.max_messages
                     \/ Len(sent) >= queue[p].hwm.hwm_lmdb_size
                  THEN Len(sent) - HalfOf(Len(sent))
                  ELSE Len(sent)]_vars

====
